---- MODULE Spec2Model ----
(***************************************************************************)
(* Model of the priority task scheduler (Task_Queue, Task, Thread_Pool),   *)
(* of the Thread_Pool_Manager, of the Path_Tracer (its snapshot publisher, *)
(* its passes, the tiles of a tiled pass, trace_ray), of the frame loop of *)
(* Path_Tracing, of Starter::initialize and of Pinhole_Camera::calculate.  *)
(*                                                                         *)
(* The state machines of this module share its variables:                  *)
(*   SpecQ    - one Task_Queue used by client threads (push, pop, try_pop, *)
(*              stop);                                                     *)
(*   SpecPool - one Thread_Pool: its workers, a client thread that submits *)
(*              tasks, calls wait_all and finally destroys the pool;       *)
(*   SpecMgr  - the Thread_Pool_Manager called by one thread (get_pool,    *)
(*              initialize, shutdown); SpecMgrConcurrent: by several;      *)
(*   SpecPT   - one Path_Tracer: the rendering thread (enable/disable_     *)
(*              multithreading, trace, the blit of the snapshot), a control*)
(*              thread (start/stop_continuous_updates), the tile tasks of a*)
(*              tiled pass and the snapshot publisher thread;              *)
(*   SpecTrace - the rendering thread alone: consecutive trace calls;      *)
(*   SpecCtl  - the control thread and the publisher alone;                *)
(*   SpecContinuous - the frame loop of Path_Tracing::Stage::compute in    *)
(*              continuous tiled mode, the publisher, and a thread that    *)
(*              stops the updates;                                         *)
(*   SpecStage - one call of sample_primary_rays_stage in tiled mode: the  *)
(*              tile rectangles of a viewport, batch by batch.             *)
(*   SpecDestroy - one Thread_Pool that is submitted to and destroyed,     *)
(*              without wait_all;                                          *)
(*   SpecRay  - one call of trace_ray and the calls it makes of itself;    *)
(*   SpecCompute - the frames of Path_Tracing::Stage::compute with an      *)
(*              application that enables continuous rendering and a window *)
(*              that is resized, the publisher and the tile tasks;         *)
(*   SpecStarter - Starter::initialize on machines of any hardware         *)
(*              concurrency;                                               *)
(*   SpecCamera - two calls of Pinhole_Camera::calculate on one buffer, in *)
(*              its sequential and in its tiled mode.                      *)
(* FairSpecQ, FairSpecPool, FairSpecDestroy, FairSpecContinuous,           *)
(* FairSpecPass, FairSpecStage and FairSpecRay add the fairness of the     *)
(* thread scheduler.                                                       *)
(*                                                                         *)
(* A critical section guarded by a std::mutex is one atomic step when every*)
(* access to the data it guards is made under that mutex; where two        *)
(* different mutexes (or none) guard the same data the steps are split at  *)
(* each memory access.                                                     *)
(***************************************************************************)
EXTENDS Integers, Sequences, FiniteSets, TLC

(* ------------------------------ bounds -------------------------------- *)
\* client threads of the Task_Queue in SpecQ
NClients == 2
\* tasks pushed in SpecQ
MaxPush == 2
\* worker threads of the Thread_Pool in SpecPool
NWorkers == 2
\* tasks submitted in SpecPool
MaxSubmit == 2
\* tiles of a pass in SpecPT; tile k stands for one pixel k of its rectangle
NTiles == 2
\* samples a pixel accumulates before the application stops calling trace
MaxSamples == 2

(* --------------------------- Task_Queue.hpp --------------------------- *)
\* enum class Task_Priority { HIGH, NORMAL, LOW }
HIGH == 0
NORMAL == 1
LOW == 2
Task_Priority == {HIGH, NORMAL, LOW}

\* a null std::shared_ptr<ITask>
nullptr == 0

VARIABLES
    \* ---- Task_Queue
    tasks,          \* Task_Queue::tasks: the ids of the queued tasks
    q_stop_flag,    \* Task_Queue::stop_flag
    condition,      \* Task_Queue::condition: the threads blocked in wait()
    \* ---- the tasks created so far, indexed by id (1..Len)
    priority,       \* Task::priority
    future,         \* the shared state of Task::promise: pending, value, error
    \* ---- Thread_Pool
    stop_flag,      \* Thread_Pool::stop_flag
    active_threads, \* Thread_Pool::active_threads
    \* ---- threads
    pc,             \* where each thread is
    local,          \* the task a thread holds (push's argument, pop's result)
    \* ---- history
    returned,       \* how often pop/try_pop returned each task
    started,        \* how often execute() was entered for each task
    raised,         \* <<task, worker>>: the task's func raised in that worker
    fulfilled,      \* how often the shared state of each task was made ready
    pending_wake,   \* the consumers that were blocked in pop at a push and
                    \* of which none has returned with a task since
    waited,         \* wait_all() has returned and nothing was submitted since
    stop_snapshot,  \* the tasks that were queued when the pool's destructor
                    \* had signalled the stop
    \* ---- Path_Tracer
    continuous_updates_active,  \* Path_Tracer::continuous_updates_active
    tiles_completed,            \* Path_Tracer::tiles_completed
    active_tile_count,          \* Path_Tracer::active_tile_count
    use_multithreading_,        \* Path_Tracer::use_multithreading_
    framebuffer,                \* accumulated colour of each pixel
    ray_counters,               \* accumulated sample count of each pixel
    snapshot,                   \* the published quotient of each pixel
    framebuffer_mutex,          \* the tile that holds framebuffer_mutex, or 0
    app_pc,                     \* where the rendering thread is   
    app_index,                  \* its loop index (pixel or tile)
    tile,                       \* where the task of each tile is
    pub_pc,                     \* where the publisher thread is
    pub_index,                  \* the publisher's loop index i
    pub_color,                  \* the framebuffer[i] the publisher read
    ctl_pc,                     \* where the thread that starts and stops the
                                \* continuous updates is
    ctl_rate,                   \* the argument of its start call
    snapshot_update_interval,   \* Path_Tracer::snapshot_update_interval
    \* ---- history
    unpublished_passes,         \* the passes completed while updates are
                                \* active and since the last recomputation
    pass_changed,               \* the camera had changed at this trace call
    pass_before,                \* ray_counters when this trace call began
    \* ---- Thread_Pool_Manager
    pools,                  \* Thread_Pool_Manager::pools: role -> pool, or 0
    pool_workers,           \* the running worker threads of each pool created
    hardware_concurrency,   \* std::thread::hardware_concurrency()
    m_pc,                   \* where each caller of the manager is
    m_arg,                  \* the arguments of its call
    m_it,                   \* the iterator `it` of its get_pool call
    m_ret,                  \* the pool its last get_pool call returned
    \* ---- history
    m_seen,                 \* the registry and the pools at its last call
    m_calls,                \* the calls made to the manager
    \* ---- Path_Tracer::sample_primary_rays_stage, tiled: one call
    stage_pc,               \* where the call is
    width,                  \* primary_rays.get_width()
    height,                 \* primary_rays.get_height()
    available_threads,      \* std::thread::hardware_concurrency()
    tile_coords,            \* the vector of (tx, ty) pairs
    batch_start,            \* index of the first tile of the batch
    batch_end,              \* index after the last tile of the batch
    batch_i,                \* the loop variable i of the submit loop
    tile_tasks,             \* the tasks submitted, with what they captured
    \* ---- Path_Tracer::trace_ray: one call with depth 0 and its recursion
    ray_pc,                 \* where the innermost call is
    ray_depth,              \* its argument depth
    ray_color,              \* the Color a call has returned
    emitted_ray_count,      \* benchmark.emitted_ray_count since the call
    \* ---- Path_Tracing and its Stage::compute
    c_pc,                           \* where the thread of the frame loop is
    continuous_rendering_enabled,   \* Path_Tracing's member of that name
    target_display_fps,             \* Path_Tracing::target_display_fps
    window,                         \* <<width, height>> of the window
    frame_size,                     \* <<width, height>> of the framebuffer
    was_continuous,                 \* compute's local of that name
    previous_fps,                   \* compute's local of that name
    \* ---- Starter::initialize; a machine word is the sequence of its
    \* 16-bit limbs, the least significant first
    starter_pc,                     \* where Starter::initialize is
    hardware_threads,               \* its local of that name, a size_t
    rendering_threads,              \* its local of that name, an unsigned
    \* ---- Pinhole_Camera::calculate
    camera,         \* use_multithreading_, the locals of calculate, the tile
                    \* tasks submitted and not yet run, the calls returned
    primary_rays,   \* the Buffer<Ray>, from index 0: the sensor position of
                    \* each ray and, history, the writes of the current call
    first_call      \* history: the mode and the rays of the first call

qvars == <<tasks, q_stop_flag, condition>>
tvars == <<priority, future>>
pvars == <<stop_flag, active_threads>>
hvars == <<returned, started, raised, fulfilled, pending_wake, waited,
          stop_snapshot>>
svars == <<tasks, q_stop_flag, condition, priority, future,
           stop_flag, active_threads, pc, local, returned, started, raised,
           fulfilled, pending_wake, waited, stop_snapshot>>
ptvars == <<continuous_updates_active, tiles_completed, active_tile_count,
            use_multithreading_, framebuffer, ray_counters, snapshot,
            framebuffer_mutex, app_pc, app_index, tile, pub_pc, pub_index,
            pub_color, ctl_pc, ctl_rate, snapshot_update_interval,
            unpublished_passes, pass_changed, pass_before>>
mvars == <<pools, pool_workers, hardware_concurrency, m_pc, m_arg, m_it,
           m_ret, m_seen, m_calls>>
stagevars == <<stage_pc, width, height, available_threads, tile_coords,
               batch_start, batch_end, batch_i, tile_tasks>>
rayvars == <<ray_pc, ray_depth, ray_color, emitted_ray_count>>
cvars == <<c_pc, continuous_rendering_enabled, target_display_fps, window,
           frame_size, was_continuous, previous_fps>>
startervars == <<starter_pc, hardware_threads, rendering_threads>>
camvars == <<camera, primary_rays, first_call>>
vars == <<svars, ptvars, mvars, stagevars, rayvars, cvars, startervars,
          camvars>>
\* what the scheduler, the Path_Tracer's threads, the manager and the tiled
\* sampling stage never touch
not_svars == <<startervars, camvars, ptvars, mvars, stagevars, rayvars, cvars>>
not_ptvars == <<startervars, camvars, svars, mvars, stagevars, rayvars, cvars>>
not_mvars == <<startervars, camvars, svars, ptvars, stagevars, rayvars, cvars>>
not_stagevars == <<startervars, camvars, svars, ptvars, mvars, rayvars, cvars>>
not_rayvars == <<startervars, camvars, svars, ptvars, mvars, stagevars, cvars>>
not_cvars == <<startervars, camvars, svars, ptvars, mvars, stagevars, rayvars>>
not_startervars ==
    <<svars, ptvars, mvars, stagevars, rayvars, cvars, camvars>>
not_camvars ==
    <<svars, ptvars, mvars, stagevars, rayvars, cvars, startervars>>
\* what a step of compute that calls into the Path_Tracer never touches
not_ptcvars == <<startervars, camvars, svars, mvars, stagevars, rayvars>>

Max(a, b) == IF a >= b THEN a ELSE b

\* thread 0 is the pool's client thread, 1.. are queue clients or workers
Main == 0
QClients == 1..NClients
Workers == 1..NWorkers
Threads == 0..Max(NClients, NWorkers)

TaskIds == 1..Len(priority)

(* --------------------------- Task_Queue.cpp --------------------------- *)
\* a comparator that orders the queue the other way round
Task_Priority_Compare_Reversed(a, b) == priority[a] < priority[b]

\* Task_Priority_Compare::operator(): lower value means higher priority
Task_Priority_Compare(a, b) == priority[a] > priority[b]

\* std::priority_queue::top(): an element no other element is ordered after
IsTop(x) == x \in tasks /\ \A y \in tasks : ~Task_Priority_Compare(x, y)

\* Task_Queue::size(), empty()
size == Cardinality(tasks)
empty == tasks = {}

\* a push that notifies nobody
notify_one_Lost == UNCHANGED condition

\* condition.notify_one(): wakes one thread blocked in wait(), if there is one;
\* the woken thread re-acquires the mutex and evaluates the predicate again
notify_one ==
    \/ /\ condition = {}
       /\ UNCHANGED condition
    \/ \E c \in condition : condition' = condition \ {c}

\* a notify_all that wakes one of the blocked threads only
notify_all_WakingOne == notify_one

\* condition.notify_all()
notify_all == condition' = {}

\* the threads a notify leaves blocked keep waiting, the others go back to pop
Woken(t, next) ==
    pc' = [u \in Threads |->
             IF u = t THEN next
             ELSE IF u \in condition \ condition' THEN "pop"
             ELSE pc[u]]

\* the shared_ptr a returning pop/try_pop hands to its caller: a worker keeps it
\* in its variable task, a bare client of the queue lets it go out of scope
Handed(ret, x) == IF ret = "idle" THEN nullptr ELSE x

(* ------------------------------ Task.hpp ------------------------------ *)
\* Task::Task and Task::get_future: a new task, its promise not yet set
NewTask(p) ==
    /\ priority' = Append(priority, p)
    /\ future' = Append(future, "pending")
    /\ returned' = Append(returned, 0)
    /\ started' = Append(started, 0)
    /\ fulfilled' = Append(fulfilled, 0)

(* --------------------------- Task_Queue.cpp --------------------------- *)
\* Task_Queue::push, lines 15-18: the caller's new task (of priority p) is
\* inserted under queue_mutex; owed is what the caller records of the
\* consumers blocked at this moment
PushLock(t, p, owed) ==
    /\ pc[t] = "idle"
    /\ NewTask(p)
    /\ tasks' = tasks \cup {Len(priority) + 1}
    /\ pc' = [pc EXCEPT ![t] = "push_notify"]
    /\ pending_wake' = owed
    /\ waited' = FALSE
    /\ UNCHANGED <<not_svars, q_stop_flag, condition, pvars, local, raised,
                   stop_snapshot>>

\* Task_Queue::push, line 20: condition.notify_one() after the unlock
PushNotify(t) ==
    /\ pc[t] = "push_notify"
    /\ notify_one
    /\ Woken(t, "idle")
    /\ UNCHANGED <<not_svars, tasks, q_stop_flag, tvars, pvars, local, hvars>>

\* a wait predicate that does not look at the stop flag
PopPredicate_IgnoringStop == ~empty

\* the predicate of condition.wait in pop
PopPredicate == ~empty \/ q_stop_flag

\* Task_Queue::pop, lines 25-31: the predicate is false, the thread blocks.
\* A thread is at "pop" when it has called pop and when it was woken in wait()
\* and evaluates the predicate again
PopBlock(t) ==
    /\ pc[t] = "pop"
    /\ ~PopPredicate
    /\ condition' = condition \cup {t}
    /\ pc' = [pc EXCEPT ![t] = "pop_wait"]
    /\ UNCHANGED <<not_svars, tasks, q_stop_flag, tvars, pvars, local, hvars>>

\* Task_Queue::pop, lines 34-37: stopped and empty, the null sentinel
PopNull(t, ret) ==
    /\ pc[t] = "pop"
    /\ PopPredicate
    /\ q_stop_flag /\ empty
    /\ local' = [local EXCEPT ![t] = nullptr]
    /\ pc' = [pc EXCEPT ![t] = ret]
    /\ UNCHANGED <<not_svars, qvars, tvars, pvars, hvars>>

\* a pop that returns top() and leaves it in the queue
PopTake_KeepingTask(t, ret) ==
    /\ pc[t] = "pop"
    /\ ~empty
    /\ \E x \in tasks :
         /\ IsTop(x)
         /\ local' = [local EXCEPT ![t] = Handed(ret, x)]
         /\ returned' = [returned EXCEPT ![x] = @ + 1]
    /\ pc' = [pc EXCEPT ![t] = ret]
    /\ UNCHANGED <<not_svars, qvars, tvars, pvars, started, raised, fulfilled,
                   pending_wake, waited, stop_snapshot>>

\* Task_Queue::pop, lines 39-41: top() and pop() under queue_mutex
PopTake(t, ret) ==
    /\ pc[t] = "pop"
    /\ PopPredicate
    /\ ~(q_stop_flag /\ empty)
    /\ \E x \in tasks :
         /\ IsTop(x)
         /\ tasks' = tasks \ {x}
         /\ local' = [local EXCEPT ![t] = Handed(ret, x)]
         /\ returned' = [returned EXCEPT ![x] = @ + 1]
    /\ pending_wake' = IF t \in pending_wake THEN {} ELSE pending_wake
    /\ pc' = [pc EXCEPT ![t] = ret]
    /\ UNCHANGED not_svars
    /\ UNCHANGED <<q_stop_flag, condition, tvars, pvars, started, raised,
                   fulfilled, waited, stop_snapshot>>

\* std::condition_variable::wait may return without a notification
SpuriousWake(t) ==
    /\ pc[t] = "pop_wait"
    /\ t \in condition
    /\ condition' = condition \ {t}
    /\ pc' = [pc EXCEPT ![t] = "pop"]
    /\ UNCHANGED <<not_svars, tasks, q_stop_flag, tvars, pvars, local, hvars>>

\* Task_Queue::try_pop, lines 46-55
TryPop(t) ==
    /\ pc[t] = "idle"
    /\ \/ /\ empty
          /\ UNCHANGED <<tasks, returned>>
       \/ \E x \in tasks :
            /\ IsTop(x)
            /\ tasks' = tasks \ {x}
            /\ returned' = [returned EXCEPT ![x] = @ + 1]
    /\ UNCHANGED not_svars
    /\ UNCHANGED <<q_stop_flag, condition, tvars, pvars, pc, local, started,
                   raised, fulfilled, pending_wake, waited, stop_snapshot>>

\* a stop() that clears a flag that is already set
StopLock_Toggling(t, from) ==
    /\ pc[t] = from
    /\ q_stop_flag' = ~q_stop_flag
    /\ pc' = [pc EXCEPT ![t] = "stop_notify"]
    /\ UNCHANGED <<not_svars, tasks, condition, tvars, pvars, local, hvars>>

\* Task_Queue::stop, lines 72-75: the flag is set under queue_mutex
StopLock(t, from) ==
    /\ pc[t] = from
    /\ q_stop_flag' = TRUE
    /\ pc' = [pc EXCEPT ![t] = "stop_notify"]
    /\ UNCHANGED <<not_svars, tasks, condition, tvars, pvars, local, hvars>>

\* Task_Queue::stop, line 77: condition.notify_all() after the unlock; snap is
\* what the caller records of the queue at this moment
StopNotify(t, ret, snap) ==
    /\ pc[t] = "stop_notify"
    /\ notify_all
    /\ Woken(t, ret)
    /\ stop_snapshot' = snap
    /\ UNCHANGED not_svars
    /\ UNCHANGED <<tasks, q_stop_flag, tvars, pvars, local, returned, started,
                   raised, fulfilled, pending_wake, waited>>

(* --------------------------- Path_Tracer.hpp -------------------------- *)
Tiles == 1..NTiles

\* Path_Tracer::Path_Tracer: no publisher, the completion flag set, no tile
\* outstanding, sequential mode, the buffers not yet sized
InitPathTracer ==
    /\ continuous_updates_active = FALSE
    /\ tiles_completed = TRUE
    /\ active_tile_count = 0
    /\ use_multithreading_ = FALSE
    /\ framebuffer = <<>>
    /\ ray_counters = <<>>
    /\ snapshot = <<>>
    /\ framebuffer_mutex = 0
    /\ app_pc = "idle"
    /\ app_index = 0
    /\ tile = [k \in Tiles |-> "none"]
    /\ pub_pc = "none"
    /\ pub_index = 0
    /\ pub_color = 0
    /\ ctl_pc = "idle"
    /\ ctl_rate = 0
    /\ snapshot_update_interval = <<1, 30>>
    /\ unpublished_passes = 0
    /\ pass_changed = FALSE
    /\ pass_before = <<>>

(* ----------------------- clients of one Task_Queue -------------------- *)
\* no Thread_Pool_Manager exists
NoManager ==
    /\ pools = <<>>
    /\ pool_workers = <<>>
    /\ hardware_concurrency = 0
    /\ m_pc = <<>>
    /\ m_arg = <<>>
    /\ m_it = <<>>
    /\ m_ret = <<>>
    /\ m_seen = <<>>
    /\ m_calls = 0

\* Task_Queue::Task_Queue and Thread_Pool's member initialisers: an empty
\* queue, no stop requested, no worker busy, no task created
InitScheduler ==
    /\ tasks = {}
    /\ q_stop_flag = FALSE
    /\ condition = {}
    /\ priority = <<>>
    /\ future = <<>>
    /\ stop_flag = FALSE
    /\ active_threads = 0
    /\ local = [t \in Threads |-> nullptr]
    /\ returned = <<>>
    /\ started = <<>>
    /\ fulfilled = <<>>
    /\ raised = {}
    /\ waited = FALSE
    /\ stop_snapshot = {}
    /\ pending_wake = {}

\* no tiled sampling stage is being followed
NoStage ==
    /\ stage_pc = "none"
    /\ width = 0
    /\ height = 0
    /\ available_threads = 0
    /\ tile_coords = <<>>
    /\ batch_start = 0
    /\ batch_end = 0
    /\ batch_i = 0
    /\ tile_tasks = <<>>

\* no trace_ray call is being followed
NoRay ==
    /\ ray_pc = "idle"
    /\ ray_depth = 0
    /\ ray_color = <<>>
    /\ emitted_ray_count = 0

\* Starter::initialize has not been entered
NoStarter ==
    /\ starter_pc = "idle"
    /\ hardware_threads = <<>>
    /\ rendering_threads = <<>>

\* Pinhole_Camera::Pinhole_Camera (Pinhole_Camera.hpp): no calculate has been
\* called and there is no buffer of primary rays
NoCamera ==
    /\ camera = [pc |-> "none"]
    /\ primary_rays = <<>>
    /\ first_call = <<>>

\* the window the frames are presented in: two shapes of NTiles pixels
WindowSizes == {<<NTiles, 1>>, <<1, NTiles>>}

\* Path_Tracing's constructor (Path_Tracing.cpp lines 105-124); no frame has
\* been computed and the frame buffer is empty
InitPathTracing ==
    /\ c_pc = "idle"
    /\ continuous_rendering_enabled = FALSE
    /\ target_display_fps = 30
    /\ window = <<NTiles, 1>>
    /\ frame_size = <<0, 0>>
    /\ was_continuous = FALSE
    /\ previous_fps = 0

InitCommon ==
    /\ InitPathTracer
    /\ InitScheduler
    /\ NoManager
    /\ NoStage
    /\ NoRay
    /\ InitPathTracing
    /\ NoStarter
    /\ NoCamera

InitQ ==
    /\ InitCommon
    /\ pc = [t \in Threads |-> "idle"]

\* a client thread calls push with a new task
ClientPush(t) ==
    /\ Len(priority) < MaxPush
    /\ \E p \in Task_Priority :
         PushLock(t, p, IF q_stop_flag THEN pending_wake
                        ELSE pending_wake \cup condition)

\* a client thread calls pop
ClientPop(t) ==
    /\ pc[t] = "idle"
    /\ pc' = [pc EXCEPT ![t] = "pop"]
    /\ UNCHANGED <<not_svars, qvars, tvars, pvars, local, hvars>>

\* a client thread calls try_pop or stop
ClientCall(t) ==
    \/ TryPop(t)
    \/ StopLock(t, "idle")

\* once inside an operation a thread keeps being scheduled until it returns or
\* blocks; nothing makes a client start an operation, and no spurious wake-up
\* is ever owed
QRun(t) ==
    \/ PushNotify(t)
    \/ PopBlock(t)
    \/ PopNull(t, "idle")
    \/ PopTake(t, "idle")
    \/ StopNotify(t, "idle", stop_snapshot)

NextQ ==
    \/ \E t \in QClients : ClientPush(t)
    \/ \E t \in QClients : ClientPop(t)
    \/ \E t \in QClients : ClientCall(t)
    \/ \E t \in QClients : QRun(t)
    \/ \E t \in QClients : SpuriousWake(t)

SpecQ == InitQ /\ [][NextQ]_vars

FairSpecQ == SpecQ /\ \A t \in QClients : WF_vars(QRun(t))

(* ------------------------------ Task.hpp ------------------------------ *)
\* an execute() without the catch: what func() raises leaves execute() and the
\* promise is never set
Task_execute_Uncaught(th) ==
    [state |-> IF th THEN "pending" ELSE "value", escapes |-> th]

\* Task::execute, lines 42-61: func() runs inside try; a value sets the
\* promise, anything raised (th) is caught by catch (...) and set as the
\* promise's exception, so nothing escapes to the caller
Task_execute(th) ==
    [state |-> IF th THEN "error" ELSE "value", escapes |-> FALSE]

\* a promise whose destructor leaves an unset shared state as it is
Abandon_Nothing(ids) == UNCHANGED <<future, fulfilled>>

\* ~Task -> std::promise::~promise(): a shared state that is not ready is made
\* ready with std::future_error(broken_promise)
Abandon(ids) ==
    /\ future' = [id \in DOMAIN future |->
                    IF id \in ids /\ future[id] = "pending" THEN "error"
                    ELSE future[id]]
    /\ fulfilled' = [id \in DOMAIN fulfilled |->
                       IF id \in ids /\ future[id] = "pending"
                       THEN fulfilled[id] + 1 ELSE fulfilled[id]]

(* --------------------------- Thread_Pool.cpp -------------------------- *)
\* the priority of a submitted task: that of the overload submit(func, args...)
\* (Thread_Pool.hpp lines 51-56); the order among priorities is the queue's
\* business and is exercised in SpecQ
SubmitPriority == {NORMAL}

\* Thread_Pool::get_queue_size, get_active_threads
get_queue_size == size
get_active_threads == active_threads

\* worker_function, line 48: while (!stop_flag), then the call of pop
WorkerLoop(w) ==
    /\ pc[w] = "loop"
    /\ pc' = [pc EXCEPT ![w] = IF stop_flag THEN "done" ELSE "pop"]
    /\ UNCHANGED <<not_svars, qvars, tvars, pvars, local, hvars>>

\* a worker that enters execute() without counting itself
WorkerActive_NoIncrement(w) ==
    /\ pc[w] = "got"
    /\ started' = [started EXCEPT ![local[w]] = @ + 1]
    /\ pc' = [pc EXCEPT ![w] = "running"]
    /\ UNCHANGED not_svars
    /\ UNCHANGED <<qvars, tvars, pvars, local, returned, raised, fulfilled,
                   pending_wake, waited, stop_snapshot>>

\* worker_function, lines 54-61: if (task) ++active_threads, and execute() is
\* entered
WorkerActive(w) ==
    /\ pc[w] = "got"
    /\ active_threads' = active_threads + 1
    /\ started' = [started EXCEPT ![local[w]] = @ + 1]
    /\ pc' = [pc EXCEPT ![w] = "running"]
    /\ UNCHANGED not_svars
    /\ UNCHANGED <<qvars, tvars, stop_flag, local, returned, raised, fulfilled,
                   pending_wake, waited, stop_snapshot>>

\* worker_function, line 61: task->execute() ends, func() having returned or
\* raised; an exception that escaped execute() would leave worker_function
\* and terminate the thread
ExecuteEnd(w) ==
    /\ pc[w] = "running"
    /\ \E th \in BOOLEAN :
         LET r == Task_execute(th) IN
           /\ raised' = IF th THEN raised \cup {<<local[w], w>>} ELSE raised
           /\ future' = [future EXCEPT ![local[w]] = r.state]
           /\ fulfilled' = [fulfilled EXCEPT ![local[w]] =
                              IF r.state = "pending" THEN @ ELSE @ + 1]
           /\ pc' = [pc EXCEPT ![w] =
                       IF r.escapes THEN "terminated" ELSE "dec"]
    /\ UNCHANGED <<not_svars, qvars, priority, pvars, local, returned, started,
                   pending_wake, waited, stop_snapshot>>

\* worker_function, lines 64-66: --active_threads, the end of the iteration
WorkerInactive(w) ==
    /\ pc[w] = "dec"
    /\ active_threads' = active_threads - 1
    /\ local' = [local EXCEPT ![w] = nullptr]
    /\ pc' = [pc EXCEPT ![w] = "loop"]
    /\ UNCHANGED <<not_svars, qvars, tvars, stop_flag, hvars>>

\* Thread_Pool::submit (Thread_Pool.hpp lines 73-89): a Task is made from the
\* callable and pushed
Submit ==
    /\ Len(priority) < MaxSubmit
    /\ \E p \in SubmitPriority : PushLock(Main, p, pending_wake)

\* wait_all, line 74: get_queue_size() > 0, the left operand of ||
WaitAllQueue ==
    /\ pc[Main] \in {"idle", "wait_all"}
    /\ pc' = [pc EXCEPT ![Main] =
                IF get_queue_size > 0 THEN "wait_all" ELSE "wait_active"]
    /\ UNCHANGED <<not_svars, qvars, tvars, pvars, local, hvars>>

\* wait_all, line 74: get_active_threads() > 0, evaluated when the queue was
\* empty; both false: wait_all returns
WaitAllActive ==
    /\ pc[Main] = "wait_active"
    /\ pc' = [pc EXCEPT ![Main] =
                IF get_active_threads > 0 THEN "wait_all" ELSE "idle"]
    /\ waited' = (get_active_threads = 0)
    /\ UNCHANGED not_svars
    /\ UNCHANGED <<qvars, tvars, pvars, local, returned, started, raised,
                   fulfilled, pending_wake, stop_snapshot>>

\* ~Thread_Pool, line 32: stop_flag = true
DtorStopFlag ==
    /\ pc[Main] = "idle"
    /\ stop_flag' = TRUE
    /\ pc' = [pc EXCEPT ![Main] = "dtor"]
    /\ UNCHANGED <<not_svars, qvars, tvars, active_threads, local, hvars>>

\* ~Thread_Pool, lines 36-42: every worker is joined
DtorJoin ==
    /\ pc[Main] = "join"
    /\ \A w \in Workers : pc[w] = "done"
    /\ pc' = [pc EXCEPT ![Main] = "destroy"]
    /\ UNCHANGED <<not_svars, qvars, tvars, pvars, local, hvars>>

\* the end of ~Thread_Pool: the member task_queue (Thread_Pool.hpp line 24) is
\* destroyed, and with it the last shared_ptr to every task still queued
DtorMembers ==
    /\ pc[Main] = "destroy"
    /\ Abandon(tasks)
    /\ tasks' = {}
    /\ pc' = [pc EXCEPT ![Main] = "gone"]
    /\ UNCHANGED not_svars
    /\ UNCHANGED <<q_stop_flag, condition, priority, pvars, local, returned,
                   started, raised, pending_wake, waited, stop_snapshot>>

\* Thread_Pool::Thread_Pool: the workers are created, each entering its loop
InitPool ==
    /\ InitCommon
    /\ pc = [t \in Threads |-> IF t \in Workers THEN "loop" ELSE "idle"]

WorkerStep(w) ==
    \/ WorkerLoop(w)
    \/ PopBlock(w)
    \/ PopNull(w, "loop")
    \/ PopTake(w, "got")
    \/ WorkerActive(w)
    \/ ExecuteEnd(w)
    \/ WorkerInactive(w)

\* the steps of an operation of the client thread that is under way
MainRun ==
    \/ PushNotify(Main)
    \/ WaitAllActive
    \/ StopLock(Main, "dtor")
    \/ StopNotify(Main, "join", tasks)
    \/ DtorJoin
    \/ DtorMembers

NextPool ==
    \/ \E w \in Workers : WorkerStep(w)
    \/ \E w \in Workers : SpuriousWake(w)
    \/ Submit
    \/ WaitAllQueue
    \/ DtorStopFlag
    \/ MainRun

SpecPool == InitPool /\ [][NextPool]_vars

\* every thread that can run keeps being scheduled; the client is not obliged to
\* submit, to call wait_all or to destroy the pool
FairSpecPool ==
    /\ SpecPool
    /\ \A w \in Workers : WF_vars(WorkerStep(w))
    /\ WF_vars(MainRun)
    /\ WF_vars(pc[Main] = "wait_all" /\ WaitAllQueue)

\* the steps of a submit or of the destructor that is under way
DtorRun ==
    \/ PushNotify(Main)
    \/ StopLock(Main, "dtor")
    \/ StopNotify(Main, "join", tasks)
    \/ DtorJoin
    \/ DtorMembers

\* a client that submits tasks and then destroys the pool, without calling
\* wait_all
NextDestroy ==
    \/ \E w \in Workers : WorkerStep(w)
    \/ \E w \in Workers : SpuriousWake(w)
    \/ Submit
    \/ DtorStopFlag
    \/ DtorRun

SpecDestroy == InitPool /\ [][NextDestroy]_vars

\* every thread that can run keeps being scheduled; the client is not obliged
\* to submit or to destroy the pool
FairSpecDestroy ==
    /\ SpecDestroy
    /\ \A w \in Workers : WF_vars(WorkerStep(w))
    /\ WF_vars(DtorRun)

(* --------------------------- Path_Tracer.cpp -------------------------- *)
flags == <<continuous_updates_active, tiles_completed, active_tile_count,
           use_multithreading_>>
buffers == <<framebuffer, ray_counters>>
appvars == <<app_pc, app_index>>
tilevars == <<tile, framebuffer_mutex>>
pubvars == <<pub_pc, pub_index, pub_color>>
ctlvars == <<ctl_pc, ctl_rate, snapshot_update_interval>>
passvars == <<unpublished_passes, pass_changed, pass_before>>

\* trace_ray: the colour of one sample. Every sample of the modelled scene has
\* the same unit colour, so the exact average of a pixel that has samples is 1
trace_ray == 1

\* Frame_Data::number_of_iterations: the samples a pass adds to a pixel
number_of_iterations == 1

\* Color(0, 0, 0), and a buffer of NTiles zeroed elements
Black == <<0, 1>>
Zeros == [k \in Tiles |-> 0]

\* a clear that leaves the buffer as it is
Buffer_clear_Kept(buffer) == buffer

\* Buffer::clear(0): every element is zeroed
Buffer_clear(buffer) == [k \in DOMAIN buffer |-> 0]

RECURSIVE Gcd(_, _)
Gcd(a, b) == IF b = 0 THEN a ELSE Gcd(b, a % b)

\* Color / float: the quotient as a reduced fraction <<numerator, denominator>>;
\* a zero divisor gives no finite value and is kept as it is
Divide(c, n) ==
    IF n = 0 THEN <<c, 0>> ELSE <<c \div Gcd(c, n), n \div Gcd(c, n)>>

\* the rates start_continuous_updates is called with
Rates == {30, 60, 120}

\* snapshot_sync_mutex is held by the publisher from the return of wait() to
\* the end of its block (lines 96-130); every other holder takes it for one step
snapshot_sync_mutex_held == pub_pc \in {"read", "write", "reset"}

\* a notification that wakes nobody
snapshot_ready_notify_Lost == UNCHANGED pub_pc

\* snapshot_ready_condition.notify_one / notify_all: the publisher is the only
\* thread that ever waits on it; woken, it evaluates its predicate again
snapshot_ready_notify == pub_pc' = IF pub_pc = "blocked" THEN "wait" ELSE pub_pc

\* a test at line 29 that lets every call through
AlreadyActive_Unchecked == FALSE

\* start_continuous_updates, line 29
AlreadyActive == continuous_updates_active

\* history: a pass has completed; passes count while updates are active, 2
\* stands for two or more
PassCompleted ==
    IF ~continuous_updates_active THEN unpublished_passes
    ELSE IF unpublished_passes < 2 THEN unpublished_passes + 1
    ELSE unpublished_passes

\* start_continuous_updates, lines 26-49. The application calls it between
\* two trace calls. Called while active it returns at line 30; otherwise the
\* stores are made before the publisher thread exists
start_continuous_updates_body(updates_per_second) ==
    /\ ctl_pc = "idle"
    /\ app_pc = "idle"
    /\ IF AlreadyActive
       THEN /\ ctl_pc' = "start_return"
            /\ ctl_rate' = updates_per_second
            /\ UNCHANGED <<flags, pub_pc, snapshot_update_interval,
                           unpublished_passes>>
       ELSE /\ snapshot_update_interval' = Divide(1, updates_per_second)
            /\ tiles_completed' = TRUE
            /\ active_tile_count' = 0
            /\ continuous_updates_active' = TRUE
            /\ pub_pc' = "loop"
            /\ unpublished_passes' = 0
            /\ UNCHANGED <<use_multithreading_, ctl_pc, ctl_rate>>
    /\ UNCHANGED <<buffers, snapshot, appvars, tilevars,
                   pub_index, pub_color, pass_changed, pass_before>>

\* the call made by a thread of the application
start_continuous_updates(updates_per_second) ==
    /\ start_continuous_updates_body(updates_per_second)
    /\ UNCHANGED not_ptvars

\* start_continuous_updates, line 30: the return of a call made while active
StartReturn ==
    /\ ctl_pc = "start_return"
    /\ ctl_pc' = "idle"
    /\ ctl_rate' = 0
    /\ UNCHANGED <<not_ptvars, flags, buffers, snapshot, appvars, tilevars,
                   pubvars, snapshot_update_interval, passvars>>

\* stop_continuous_updates, line 54; it may be called while a pass is under
\* way
StopStore_body ==
    /\ ctl_pc = "idle"
    /\ continuous_updates_active' = FALSE
    /\ ctl_pc' = "stop_lock"
    /\ UNCHANGED <<tiles_completed, active_tile_count,
                   use_multithreading_, buffers, snapshot, appvars,
                   tilevars, pubvars, ctl_rate, snapshot_update_interval,
                   passvars>>

\* the store made by a thread of the application
StopStore ==
    /\ StopStore_body
    /\ UNCHANGED not_ptvars

\* stop_continuous_updates, lines 58-61
StopCompleted ==
    /\ ctl_pc = "stop_lock"
    /\ ~snapshot_sync_mutex_held
    /\ tiles_completed' = TRUE
    /\ ctl_pc' = "stop_notify"
    /\ UNCHANGED <<not_ptvars, continuous_updates_active, active_tile_count,
                   use_multithreading_, buffers, snapshot, appvars,
                   tilevars, pubvars, ctl_rate, snapshot_update_interval,
                   passvars>>

\* stop_continuous_updates, line 62
StopNotifyAll ==
    /\ ctl_pc = "stop_notify"
    /\ snapshot_ready_notify
    /\ ctl_pc' = "stop_join"
    /\ UNCHANGED <<not_ptvars, flags, buffers, snapshot, appvars, tilevars,
                   pub_index, pub_color, ctl_rate, snapshot_update_interval,
                   passvars>>

\* stop_continuous_updates, lines 65-67: join, if there is a thread
StopJoin ==
    /\ ctl_pc = "stop_join"
    /\ pub_pc \in {"none", "exited"}
    /\ pub_pc' = "none"
    /\ ctl_pc' = "idle"
    /\ UNCHANGED <<not_ptvars, flags, buffers, snapshot, appvars, tilevars,
                   pub_index, pub_color, ctl_rate, snapshot_update_interval,
                   passvars>>

\* the test without its comparison with the snapshot's size
BuffersMatch_SnapshotIgnored ==
    /\ framebuffer # <<>> /\ ray_counters # <<>>
    /\ Len(framebuffer) = Len(ray_counters)

\* the publisher's test at lines 111-113
BuffersMatch ==
    /\ framebuffer # <<>> /\ ray_counters # <<>>
    /\ Len(framebuffer) = Len(ray_counters)
    /\ Len(framebuffer) = Len(snapshot)

\* continuous_snapshot_update_loop_synchronized, line 90
PubLoop ==
    /\ pub_pc = "loop"
    /\ pub_pc' = IF continuous_updates_active THEN "wait" ELSE "exited"
    /\ UNCHANGED <<not_ptvars, flags, buffers, snapshot, appvars, tilevars,
                   pub_index, pub_color, ctlvars, passvars>>

\* lines 96-113: the lock, the wait predicate, the shutdown test and the test
\* of the buffers
PubWait ==
    /\ pub_pc = "wait"
    /\ pub_pc' = IF ~(tiles_completed \/ ~continuous_updates_active)
                 THEN "blocked"
                 ELSE IF ~continuous_updates_active THEN "exited"
                 ELSE IF BuffersMatch THEN "read" ELSE "reset"
    /\ pub_index' = IF pub_pc' = "read" THEN 1 ELSE pub_index
    /\ unpublished_passes' = IF pub_pc' = "read" THEN 0
                             ELSE unpublished_passes
    /\ UNCHANGED <<not_ptvars, flags, buffers, snapshot, appvars, tilevars,
                   pub_color, ctlvars, pass_changed, pass_before>>

\* std::condition_variable::wait may return without a notification
PubSpuriousWake ==
    /\ pub_pc = "blocked"
    /\ pub_pc' = "wait"
    /\ UNCHANGED <<not_ptvars, flags, buffers, snapshot, appvars, tilevars,
                   pub_index, pub_color, ctlvars, passvars>>

\* the end of one iteration of the loop at line 117
PubAdvance ==
    IF pub_index < Len(framebuffer)
    THEN pub_pc' = "read" /\ pub_index' = pub_index + 1
    ELSE pub_pc' = "reset" /\ pub_index' = 0

\* lines 118-120: the test of ray_counters[i] and the read of framebuffer[i]
PubRead ==
    /\ pub_pc = "read"
    /\ IF ray_counters[pub_index] > 0
       THEN /\ pub_color' = framebuffer[pub_index]
            /\ pub_pc' = "write"
            /\ UNCHANGED pub_index
       ELSE /\ PubAdvance
            /\ UNCHANGED pub_color
    /\ UNCHANGED <<not_ptvars, flags, buffers, snapshot, appvars, tilevars,
                   ctlvars, passvars>>

\* line 120: the read of ray_counters[i], the division and the store
PubWrite ==
    /\ pub_pc = "write"
    /\ snapshot' = [snapshot EXCEPT ![pub_index] =
                      Divide(pub_color, ray_counters[pub_index])]
    /\ pub_color' = 0
    /\ PubAdvance
    /\ UNCHANGED <<not_ptvars, flags, buffers, appvars, tilevars, ctlvars,
                   passvars>>

\* lines 129-138: the flag is reset, the lock released; the sleep changes no
\* state
PubReset ==
    /\ pub_pc = "reset"
    /\ tiles_completed' = FALSE
    /\ pub_pc' = "loop"
    /\ UNCHANGED <<not_ptvars, continuous_updates_active, active_tile_count,
                   use_multithreading_, buffers, snapshot, appvars, tilevars,
                   pub_index, pub_color, ctlvars, passvars>>

\* enable_multithreading, lines 413-418
enable_multithreading ==
    /\ app_pc = "idle"
    /\ ~use_multithreading_
    /\ use_multithreading_' = TRUE
    /\ UNCHANGED <<not_ptvars, continuous_updates_active, tiles_completed,
                   active_tile_count, buffers, snapshot, appvars, tilevars,
                   pubvars, ctlvars, passvars>>

\* disable_multithreading, lines 420-425
disable_multithreading ==
    /\ app_pc = "idle"
    /\ use_multithreading_
    /\ use_multithreading_' = FALSE
    /\ UNCHANGED <<not_ptvars, continuous_updates_active, tiles_completed,
                   active_tile_count, buffers, snapshot, appvars, tilevars,
                   pubvars, ctlvars, passvars>>

\* trace -> execute_path_tracing_pipeline up to framebuffer.resize in
\* prepare_buffers_stage (Path_Tracer.hpp lines 149-169): on the first call
\* the buffers are sized one after the other, on later calls of the same
\* viewport resize changes nothing; the camera has changed since the last
\* call or not
TraceBegin_body(changed) ==
    /\ app_pc = "idle"
    /\ \A k \in DOMAIN ray_counters : ray_counters[k] < MaxSamples
    /\ IF framebuffer = <<>>
       THEN /\ framebuffer' = Zeros
            /\ app_pc' = "resize_counters"
            /\ pass_before' = Zeros
       ELSE /\ UNCHANGED framebuffer
            /\ app_pc' = IF changed THEN "clear" ELSE "sample"
            /\ pass_before' = ray_counters
    /\ pass_changed' = changed
    /\ UNCHANGED <<flags, ray_counters, snapshot, app_index,
                   tilevars, pubvars, ctlvars, unpublished_passes>>

\* trace called with a viewport that is not the one of the frame buffer:
\* prepare_buffers_stage (Path_Tracer.hpp lines 166-173) gives the four
\* buffers the new dimensions one after the other, line 169 being the first
TraceResize_body(changed) ==
    /\ app_pc = "idle"
    /\ \A k \in DOMAIN ray_counters : ray_counters[k] < MaxSamples
    /\ framebuffer' = IF framebuffer = <<>> THEN Zeros ELSE framebuffer
    /\ app_pc' = "resize_counters"
    /\ pass_before' = IF framebuffer = <<>> THEN Zeros ELSE ray_counters
    /\ pass_changed' = changed
    /\ UNCHANGED <<flags, ray_counters, snapshot, app_index,
                   tilevars, pubvars, ctlvars, unpublished_passes>>

\* the call made by a client of the Path_Tracer
TraceBegin(changed) ==
    /\ TraceBegin_body(changed)
    /\ UNCHANGED not_ptvars

\* prepare_buffers_stage, Path_Tracer.hpp line 171; both viewports of the
\* model have NTiles pixels, and a buffer that has them keeps its elements
ResizeCounters ==
    /\ app_pc = "resize_counters"
    /\ ray_counters' = IF ray_counters = <<>> THEN Zeros ELSE ray_counters
    /\ app_pc' = "resize_snapshot"
    /\ UNCHANGED <<not_ptvars, flags, framebuffer, snapshot, app_index,
                   tilevars, pubvars, ctlvars, passvars>>

\* prepare_buffers_stage, Path_Tracer.hpp line 172
ResizeSnapshot ==
    /\ app_pc = "resize_snapshot"
    /\ snapshot' =
         IF snapshot = <<>> THEN [k \in Tiles |-> Black] ELSE snapshot
    /\ app_pc' = IF pass_changed THEN "clear" ELSE "sample"
    /\ UNCHANGED <<not_ptvars, flags, buffers, app_index, tilevars, pubvars,
                   ctlvars, passvars>>

\* check_camera_change_stage, Path_Tracer.hpp line 182
ClearColor ==
    /\ app_pc = "clear"
    /\ framebuffer' = Buffer_clear(framebuffer)
    /\ app_pc' = "clear_count"
    /\ UNCHANGED <<not_ptvars, flags, ray_counters, snapshot, app_index,
                   tilevars, pubvars, ctlvars, passvars>>

\* check_camera_change_stage, Path_Tracer.hpp line 183
ClearCount ==
    /\ app_pc = "clear_count"
    /\ ray_counters' = Buffer_clear(ray_counters)
    /\ app_pc' = "sample"
    /\ UNCHANGED <<not_ptvars, flags, framebuffer, snapshot, app_index,
                   tilevars, pubvars, ctlvars, passvars>>

\* sample_primary_rays_stage, line 160 and, in tiled mode, line 205
SampleStage ==
    /\ app_pc = "sample"
    /\ IF ~use_multithreading_
       THEN /\ app_pc' = "seq_color"
            /\ UNCHANGED active_tile_count
       ELSE /\ app_pc' = "submit"
            /\ active_tile_count' = NTiles
    /\ app_index' = 1
    /\ UNCHANGED <<not_ptvars, continuous_updates_active, tiles_completed,
                   use_multithreading_, buffers, snapshot, tilevars, pubvars,
                   ctlvars, passvars>>

\* line 169, one sample per pixel and pass
SeqColor ==
    /\ app_pc = "seq_color"
    /\ framebuffer' = [framebuffer EXCEPT ![app_index] = @ + trace_ray]
    /\ app_pc' = "seq_count"
    /\ UNCHANGED <<not_ptvars, flags, ray_counters, snapshot, app_index,
                   tilevars, pubvars, ctlvars, passvars>>

\* line 170 and the end of the loop at line 167
SeqCount ==
    /\ app_pc = "seq_count"
    /\ ray_counters' = [ray_counters EXCEPT ![app_index] =
                          @ + number_of_iterations]
    /\ IF app_index < NTiles
       THEN /\ app_pc' = "seq_color" /\ app_index' = app_index + 1
            /\ UNCHANGED unpublished_passes
       ELSE /\ app_pc' = "seq_signal" /\ app_index' = 0
            /\ unpublished_passes' = PassCompleted
    /\ UNCHANGED <<not_ptvars, flags, framebuffer, snapshot, tilevars,
                   pubvars, ctlvars, pass_changed, pass_before>>

\* lines 176-179
SeqSignal ==
    /\ app_pc = "seq_signal"
    /\ ~snapshot_sync_mutex_held
    /\ tiles_completed' = TRUE
    /\ app_pc' = "seq_notify"
    /\ UNCHANGED <<not_ptvars, continuous_updates_active, active_tile_count,
                   use_multithreading_, buffers, snapshot, app_index,
                   tilevars, pubvars, ctlvars, passvars>>

\* line 180, and the return of trace
SeqNotify ==
    /\ app_pc = "seq_notify"
    /\ snapshot_ready_notify
    /\ app_pc' = "idle"
    /\ pass_changed' = FALSE
    /\ pass_before' = <<>>
    /\ UNCHANGED <<not_ptvars, flags, buffers, snapshot, app_index, tilevars,
                   pub_index, pub_color, ctlvars, unpublished_passes>>

\* lines 225-239: the task of the next tile is submitted
SubmitTile ==
    /\ app_pc = "submit"
    /\ tile' = [tile EXCEPT ![app_index] = "queued"]
    /\ IF app_index < NTiles
       THEN app_pc' = "submit" /\ app_index' = app_index + 1
       ELSE app_pc' = "wait_tasks" /\ app_index' = 0
    /\ UNCHANGED <<not_ptvars, flags, buffers, snapshot, framebuffer_mutex,
                   pubvars, ctlvars, passvars>>

\* line 242: wait_for_tasks_ returns when every submitted task has finished,
\* and trace returns
WaitForTasks ==
    /\ app_pc = "wait_tasks"
    /\ \A k \in Tiles : tile[k] = "done"
    /\ tile' = [k \in Tiles |-> "none"]
    /\ app_pc' = "idle"
    /\ pass_changed' = FALSE
    /\ pass_before' = <<>>
    /\ UNCHANGED <<not_ptvars, flags, buffers, snapshot, app_index,
                   framebuffer_mutex, pubvars, ctlvars, unpublished_passes>>

\* trace_tile_synchronized, lines 290 and 297: framebuffer_mutex is taken and
\* the tile's colour added
TileMergeColor(k) ==
    /\ tile[k] = "queued"
    /\ framebuffer_mutex = 0
    /\ framebuffer_mutex' = k
    /\ framebuffer' = [framebuffer EXCEPT ![k] = @ + trace_ray]
    /\ tile' = [tile EXCEPT ![k] = "merging"]
    /\ UNCHANGED <<not_ptvars, flags, ray_counters, snapshot, appvars,
                   pubvars, ctlvars, passvars>>

\* a tile task that gave up its merge when the updates have been stopped
TileMergeCount_Cancelled(k) ==
    /\ tile[k] = "merging"
    /\ ray_counters' = [ray_counters EXCEPT ![k] =
                          IF continuous_updates_active
                          THEN @ + number_of_iterations ELSE @]
    /\ framebuffer_mutex' = 0
    /\ tile' = [tile EXCEPT ![k] = "decrement"]
    /\ UNCHANGED <<not_ptvars, flags, framebuffer, snapshot, appvars,
                   pubvars, ctlvars, passvars>>

\* lines 298-301: the tile's count added, framebuffer_mutex released
TileMergeCount(k) ==
    /\ tile[k] = "merging"
    /\ ray_counters' = [ray_counters EXCEPT ![k] = @ + number_of_iterations]
    /\ framebuffer_mutex' = 0
    /\ tile' = [tile EXCEPT ![k] = "decrement"]
    /\ UNCHANGED <<not_ptvars, flags, framebuffer, snapshot, appvars,
                   pubvars, ctlvars, passvars>>

\* lines 305-306: fetch_sub and the test of what remains
TileDecrement(k) ==
    /\ tile[k] = "decrement"
    /\ active_tile_count' = active_tile_count - 1
    /\ tile' = [tile EXCEPT ![k] =
                  IF active_tile_count - 1 = 0 THEN "signal" ELSE "done"]
    /\ unpublished_passes' = IF active_tile_count - 1 = 0 THEN PassCompleted
                             ELSE unpublished_passes
    /\ UNCHANGED <<not_ptvars, continuous_updates_active, tiles_completed,
                   use_multithreading_, buffers, snapshot, appvars,
                   framebuffer_mutex, pubvars, ctlvars, pass_changed,
                   pass_before>>

\* a last tile that stores the flag without taking snapshot_sync_mutex
TileSignal_NotLocking(k) ==
    /\ tile[k] = "signal"
    /\ tiles_completed' = TRUE
    /\ tile' = [tile EXCEPT ![k] = "notify"]
    /\ UNCHANGED <<not_ptvars, continuous_updates_active, active_tile_count,
                   use_multithreading_, buffers, snapshot, appvars,
                   framebuffer_mutex, pubvars, ctlvars, passvars>>

\* lines 309-312
TileSignal(k) ==
    /\ tile[k] = "signal"
    /\ ~snapshot_sync_mutex_held
    /\ tiles_completed' = TRUE
    /\ tile' = [tile EXCEPT ![k] = "notify"]
    /\ UNCHANGED <<not_ptvars, continuous_updates_active, active_tile_count,
                   use_multithreading_, buffers, snapshot, appvars,
                   framebuffer_mutex, pubvars, ctlvars, passvars>>

\* line 313
TileNotify(k) ==
    /\ tile[k] = "notify"
    /\ snapshot_ready_notify
    /\ tile' = [tile EXCEPT ![k] = "done"]
    /\ UNCHANGED <<not_ptvars, flags, buffers, snapshot, appvars,
                   framebuffer_mutex, pub_index, pub_color, ctlvars,
                   passvars>>

\* get_snapshot_for_display, lines 142-155, called after trace has sized the
\* buffers: while updates are active the snapshot buffer itself is returned,
\* otherwise get_snapshot (Path_Tracer.hpp lines 102-118) recomputes it
get_snapshot_for_display_body ==
    /\ app_pc = "idle"
    /\ framebuffer # <<>>
    /\ IF continuous_updates_active
       THEN UNCHANGED snapshot
       ELSE snapshot' = [k \in Tiles |->
                           IF ray_counters[k] > 0
                           THEN Divide(framebuffer[k], ray_counters[k])
                           ELSE Black]
    /\ app_pc' = "blit"
    /\ UNCHANGED <<flags, buffers, app_index, tilevars, pubvars,
                   ctlvars, passvars>>

\* the call made by a client of the Path_Tracer
get_snapshot_for_display ==
    /\ get_snapshot_for_display_body
    /\ UNCHANGED not_ptvars

\* Window::blit_rgb_float (Path_Tracing.cpp line 403) has read the buffer
blit_rgb_float ==
    /\ app_pc = "blit"
    /\ app_pc' = "idle"
    /\ UNCHANGED <<not_ptvars, flags, buffers, snapshot, app_index, tilevars,
                   pubvars, ctlvars, passvars>>

InitPT ==
    /\ InitCommon
    /\ pc = [t \in Threads |-> "idle"]

\* the steps of stop_continuous_updates after its first
StopRun ==
    \/ StopCompleted
    \/ StopNotifyAll
    \/ StopJoin

\* the steps of the publisher thread
PubRun ==
    \/ PubLoop
    \/ PubWait
    \/ PubRead
    \/ PubWrite
    \/ PubReset

\* the steps of a tiled pass after its first
TiledPass ==
    \/ SampleStage
    \/ SubmitTile
    \/ WaitForTasks
    \/ \E k \in Tiles : TileMergeColor(k)
    \/ \E k \in Tiles : TileMergeCount(k)
    \/ \E k \in Tiles : TileDecrement(k)
    \/ \E k \in Tiles : TileSignal(k)
    \/ \E k \in Tiles : TileNotify(k)

\* the steps of a sequential pass after SampleStage
SequentialPass ==
    \/ SeqColor
    \/ SeqCount
    \/ SeqSignal
    \/ SeqNotify

\* the camera changes between two trace calls, or does not
Trace ==
    \/ \E changed \in BOOLEAN : TraceBegin(changed)
    \/ ResizeCounters
    \/ ResizeSnapshot
    \/ ClearColor
    \/ ClearCount
    \/ TiledPass
    \/ SequentialPass

NextPT ==
    \/ \E rate \in Rates : start_continuous_updates(rate)
    \/ StartReturn
    \/ StopStore
    \/ StopRun
    \/ PubRun
    \/ PubSpuriousWake
    \/ enable_multithreading
    \/ disable_multithreading
    \/ Trace
    \/ get_snapshot_for_display
    \/ blit_rgb_float

SpecPT == InitPT /\ [][NextPT]_vars

\* a client that renders frame by frame: it switches between the sequential
\* and the tiled mode and calls trace, with no continuous updates
NextTrace ==
    \/ enable_multithreading
    \/ disable_multithreading
    \/ Trace

SpecTrace == InitPT /\ [][NextTrace]_vars

\* a client that only starts and stops the continuous updates, at any rate,
\* before the first trace call has sized the buffers
NextCtl ==
    \/ \E rate \in Rates : start_continuous_updates(rate)
    \/ StartReturn
    \/ StopStore
    \/ StopRun
    \/ PubLoop
    \/ PubWait
    \/ PubSpuriousWake
    \/ PubReset

SpecCtl == InitPT /\ [][NextCtl]_vars

\* continuous rendering of a still camera as Path_Tracing::Stage::compute
\* drives it (enable_multithreading, then trace, then the blit of the
\* snapshot, for every frame) while another thread may call
\* stop_continuous_updates at any moment
NextContinuous ==
    \/ \E rate \in {60} : start_continuous_updates(rate)
    \/ StartReturn
    \/ StopStore
    \/ StopRun
    \/ PubRun
    \/ PubSpuriousWake
    \/ enable_multithreading
    \/ use_multithreading_ /\ TraceBegin(FALSE)
    \/ ResizeCounters
    \/ ResizeSnapshot
    \/ TiledPass
    \/ get_snapshot_for_display
    \/ blit_rgb_float

SpecContinuous == InitPT /\ [][NextContinuous]_vars

\* the scheduler lets the publisher thread and a thread inside
\* stop_continuous_updates run; a spurious wake-up may never happen
FairSpecContinuous == SpecContinuous /\ WF_vars(PubRun) /\ WF_vars(StopRun)

\* the pool's workers run the tile tasks and the rendering thread runs trace,
\* beside the publisher thread and the thread inside stop_continuous_updates
FairSpecPass == FairSpecContinuous /\ WF_vars(TiledPass)

(* ----------------------- Thread_Pool_Manager.cpp ---------------------- *)
\* enum class Thread_Pool_Type { GENERAL, RENDERING, LOADING, INPUT }
GENERAL == 0
RENDERING == 1
LOADING == 2
INPUT == 3
Thread_Pool_Type == {GENERAL, RENDERING, LOADING, INPUT}

\* threads that call the manager in SpecMgrConcurrent
NCallers == 2
\* calls made to the manager
MaxCalls == 3

Callers == 1..NCallers
\* the values std::thread::hardware_concurrency() may have
HardwareThreads == {0, 1, 3}
\* the thread counts passed to initialize
ThreadCounts == {0, 2}

\* Thread_Pool::Thread_Pool: the number of worker threads it creates
Thread_Pool_ctor(thread_count) ==
    IF thread_count # 0 THEN thread_count
    ELSE IF hardware_concurrency # 0 THEN hardware_concurrency ELSE 2

\* a destructor that leaves the workers running
Joined_Leaked(w, ids) == w

\* Thread_Pool::~Thread_Pool for the pools ids: every worker is joined
Joined(w, ids) == [i \in DOMAIN w |-> IF i \in ids THEN 0 ELSE w[i]]

\* a lookup that never finds the role
pools_find_Missing(type) == nullptr

\* pools.find(type): the pool registered for the role, nullptr for pools.end()
pools_find(type) == pools[type]

\* the pools the registry holds
Registered(reg) == {reg[type] : type \in Thread_Pool_Type} \ {nullptr}

\* pools[type] = std::make_unique<Thread_Pool>(thread_count): the new pool is
\* constructed, takes the place of the one registered, and that one is
\* destroyed
Assign(type, thread_count) ==
    LET id == Len(pool_workers) + 1
        created == Append(pool_workers, Thread_Pool_ctor(thread_count))
    IN /\ pool_workers' = Joined(created, {pools[type]} \ {nullptr})
       /\ pools' = [pools EXCEPT ![type] = id]

\* the history of a call: its name, the registry and the pools created so far
Seen(op) == [op |-> op, pools |-> pools, n |-> Len(pool_workers)]

\* get_pool, `auto it = pools.find(type); if (it == pools.end())`
GetPoolFind(t) ==
    /\ m_pc[t] = "idle"
    /\ m_calls < MaxCalls
    /\ \E type \in Thread_Pool_Type :
        /\ m_arg' = [m_arg EXCEPT ![t] = type]
        /\ m_it' = [m_it EXCEPT ![t] = pools_find(type)]
        /\ m_pc' = [m_pc EXCEPT ![t] = IF pools_find(type) = nullptr
                                        THEN "create" ELSE "return_it"]
    /\ m_seen' = [m_seen EXCEPT ![t] = Seen("get_pool")]
    /\ m_calls' = m_calls + 1
    /\ UNCHANGED <<not_mvars, pools, pool_workers, hardware_concurrency,
                   m_ret>>

\* get_pool, `pools[type] = std::make_unique<Thread_Pool>();`
GetPoolCreate(t) ==
    /\ m_pc[t] = "create"
    /\ Assign(m_arg[t], 0)
    /\ m_pc' = [m_pc EXCEPT ![t] = "return_new"]
    /\ UNCHANGED <<not_mvars, hardware_concurrency, m_arg, m_it, m_ret,
                   m_seen, m_calls>>

\* get_pool, `return *pools[type];`
GetPoolReturnNew(t) ==
    /\ m_pc[t] = "return_new"
    /\ m_ret' = [m_ret EXCEPT ![t] = pools[m_arg[t]]]
    /\ m_pc' = [m_pc EXCEPT ![t] = "idle"]
    /\ UNCHANGED <<not_mvars, pools, pool_workers, hardware_concurrency,
                   m_arg, m_it, m_seen, m_calls>>

\* get_pool, `return *it->second;`
GetPoolReturnIt(t) ==
    /\ m_pc[t] = "return_it"
    /\ m_ret' = [m_ret EXCEPT ![t] = m_it[t]]
    /\ m_pc' = [m_pc EXCEPT ![t] = "idle"]
    /\ UNCHANGED <<not_mvars, pools, pool_workers, hardware_concurrency,
                   m_arg, m_it, m_seen, m_calls>>

\* initialize is called, `pools[GENERAL] = make_unique(general_threads);`
InitializeGeneral(t) ==
    /\ m_pc[t] = "idle"
    /\ m_calls < MaxCalls
    /\ \E counts \in [Thread_Pool_Type -> ThreadCounts] :
        /\ m_arg' = [m_arg EXCEPT ![t] = counts]
        /\ Assign(GENERAL, counts[GENERAL])
    /\ m_pc' = [m_pc EXCEPT ![t] = "rendering"]
    /\ m_seen' = [m_seen EXCEPT ![t] = Seen("initialize")]
    /\ m_calls' = m_calls + 1
    /\ UNCHANGED <<not_mvars, hardware_concurrency, m_it, m_ret>>

\* initialize, `pools[RENDERING] = make_unique(rendering_threads);`
InitializeRendering(t) ==
    /\ m_pc[t] = "rendering"
    /\ Assign(RENDERING, m_arg[t][RENDERING])
    /\ m_pc' = [m_pc EXCEPT ![t] = "loading"]
    /\ UNCHANGED <<not_mvars, hardware_concurrency, m_arg, m_it, m_ret,
                   m_seen, m_calls>>

\* initialize, `pools[LOADING] = make_unique(loading_threads);`
InitializeLoading(t) ==
    /\ m_pc[t] = "loading"
    /\ Assign(LOADING, m_arg[t][LOADING])
    /\ m_pc' = [m_pc EXCEPT ![t] = "input"]
    /\ UNCHANGED <<not_mvars, hardware_concurrency, m_arg, m_it, m_ret,
                   m_seen, m_calls>>

\* initialize, `pools[INPUT] = make_unique(input_threads);` and the return
InitializeInput(t) ==
    /\ m_pc[t] = "input"
    /\ Assign(INPUT, m_arg[t][INPUT])
    /\ m_pc' = [m_pc EXCEPT ![t] = "idle"]
    /\ UNCHANGED <<not_mvars, hardware_concurrency, m_arg, m_it, m_ret,
                   m_seen, m_calls>>

\* shutdown, `pools.clear();`: every registered pool is destroyed
Shutdown(t) ==
    /\ m_pc[t] = "idle"
    /\ m_calls < MaxCalls
    /\ pool_workers' = Joined(pool_workers, Registered(pools))
    /\ pools' = [type \in Thread_Pool_Type |-> nullptr]
    /\ m_seen' = [m_seen EXCEPT ![t] = Seen("shutdown")]
    /\ m_calls' = m_calls + 1
    /\ UNCHANGED <<not_mvars, hardware_concurrency, m_pc, m_arg, m_it,
                   m_ret>>

\* Thread_Pool_Manager::Thread_Pool_Manager calls initialize(), whose default
\* arguments are (0, 0, 0, 1)
InitManager ==
    /\ hardware_concurrency \in HardwareThreads
    /\ pools = [type \in Thread_Pool_Type |-> type + 1]
    /\ pool_workers = <<Thread_Pool_ctor(0), Thread_Pool_ctor(0),
                        Thread_Pool_ctor(0), Thread_Pool_ctor(1)>>
    /\ m_pc = [t \in Callers |-> "idle"]
    /\ m_arg = [t \in Callers |-> GENERAL]
    /\ m_it = [t \in Callers |-> nullptr]
    /\ m_ret = [t \in Callers |-> nullptr]
    /\ m_seen = [t \in Callers |-> [op |-> "none", pools |-> pools, n |-> 4]]
    /\ m_calls = 0

InitMgr ==
    /\ InitManager
    /\ InitPathTracer
    /\ InitScheduler
    /\ NoStage
    /\ NoRay
    /\ InitPathTracing
    /\ NoStarter
    /\ NoCamera
    /\ pc = [t \in Threads |-> "idle"]

MgrStep(t) ==
    \/ GetPoolFind(t)
    \/ GetPoolCreate(t)
    \/ GetPoolReturnNew(t)
    \/ GetPoolReturnIt(t)
    \/ InitializeGeneral(t)
    \/ InitializeRendering(t)
    \/ InitializeLoading(t)
    \/ InitializeInput(t)
    \/ Shutdown(t)

\* one thread calls the manager, one call after the other
NextMgr == MgrStep(1)

SpecMgr == InitMgr /\ [][NextMgr]_vars

\* several threads call the manager
NextMgrConcurrent == \E t \in Callers : MgrStep(t)

SpecMgrConcurrent == InitMgr /\ [][NextMgrConcurrent]_vars

(* ------- Path_Tracer.cpp: sample_primary_rays_stage, tiled mode ------- *)
\* The geometry of one tiled pass: the viewport, the tiles the stage makes
\* of it, the batches in which it submits them and what each tile task adds
\* to ray_counters.

\* largest width and height of the viewports followed pixel by pixel
MaxWidth == 65
MaxHeight == 33

\* viewports large enough for the tile edges of 64 and 128 pixels, and one
\* just below the first threshold
LargeViewports ==
    {<<499, 501>>, <<500, 500>>, <<1000, 999>>, <<1000, 1000>>,
     <<1920, 1080>>}

Viewports == ((1..MaxWidth) \X (1..MaxHeight)) \cup LargeViewports

\* the values hardware_concurrency reports (0: not computable)
StageThreads == {0, 1, 2}

\* the viewports of hundreds of tiles are followed in batches of at most
\* four tasks, the small ones in batches of up to eight
ThreadsFollowed(viewport) ==
    IF viewport \in LargeViewports THEN StageThreads \ {2} ELSE StageThreads

\* The stage computes with the type unsigned; for the viewports followed
\* here every sum and product stays far below 2^32, where that arithmetic
\* is exact.

Min(a, b) == IF a <= b THEN a ELSE b

\* line 187
total_pixels == width * height

\* the sizing with the thresholds counted to the smaller edge
TILE_SIZE_ThresholdsIncluded ==
    IF total_pixels <= 250000 THEN 32
    ELSE IF total_pixels <= 1000000 THEN 64
    ELSE 128

\* lines 190-197
TILE_SIZE ==
    IF total_pixels < 250000 THEN 32
    ELSE IF total_pixels < 1000000 THEN 64
    ELSE 128

\* the division of lines 199-200 without its rounding up
TilesAcross_Truncated(extent) == extent \div TILE_SIZE

\* lines 199-200: the tiles needed along an extent
TilesAcross(extent) == (extent + TILE_SIZE - 1) \div TILE_SIZE

tiles_x == TilesAcross(width)

tiles_y == TilesAcross(height)

\* line 201
total_tiles == tiles_x * tiles_y

\* lines 208-209
MAX_TASKS_PER_BATCH == available_threads * 4

\* lines 211-218: the tiles row by row; entry n is tile_coords[n - 1] of the
\* code
TileCoords ==
    [n \in 1..(tiles_x * tiles_y) |->
        [tx |-> (n - 1) % tiles_x, ty |-> (n - 1) \div tiles_x]]

\* a rectangle that is not clipped to the viewport
TileRect_Unclipped(i) ==
    LET tx == tile_coords[i + 1].tx
        ty == tile_coords[i + 1].ty
        start_x == tx * TILE_SIZE
        start_y == ty * TILE_SIZE
    IN  [start_x |-> start_x,
         start_y |-> start_y,
         end_x |-> start_x + TILE_SIZE,
         end_y |-> start_y + TILE_SIZE,
         merged |-> 0,
         finished |-> FALSE]

\* lines 226-232: the rectangle of the tile at tile_coords[i]
TileRect(i) ==
    LET tx == tile_coords[i + 1].tx
        ty == tile_coords[i + 1].ty
        start_x == tx * TILE_SIZE
        start_y == ty * TILE_SIZE
    IN  [start_x |-> start_x,
         start_y |-> start_y,
         end_x |-> Min(start_x + TILE_SIZE, width),
         end_y |-> Min(start_y + TILE_SIZE, height),
         merged |-> 0,
         finished |-> FALSE]

\* what of the Path_Tracer the stage and its tile tasks leave alone in this
\* view of them
stage_untouched ==
    <<svars, mvars, rayvars, cvars, startervars, camvars,
      continuous_updates_active,
      use_multithreading_,
      framebuffer, ray_counters, snapshot, framebuffer_mutex, app_pc,
      app_index, tile, pub_pc, pub_index, pub_color, ctl_pc, ctl_rate,
      snapshot_update_interval, unpublished_passes, pass_changed,
      pass_before>>

\* lines 184-218: the stage is entered in tiled mode, sets active_tile_count
\* (line 205) and builds tile_coords
GenerateTiles ==
    /\ stage_pc = "begin"
    /\ active_tile_count' = total_tiles
    /\ tile_coords' = TileCoords
    /\ batch_start' = 0
    /\ stage_pc' = "batch"
    /\ UNCHANGED <<stage_untouched, tiles_completed, width, height,
                   available_threads, batch_end, batch_i, tile_tasks>>

\* lines 221-222: the test of the batch loop and batch_end
BatchBegin ==
    /\ stage_pc = "batch"
    /\ IF batch_start < Len(tile_coords)
       THEN /\ batch_end' = Min(batch_start + MAX_TASKS_PER_BATCH,
                                Len(tile_coords))
            /\ batch_i' = batch_start
            /\ stage_pc' = "submit"
       ELSE /\ stage_pc' = "return"
            /\ UNCHANGED <<batch_end, batch_i>>
    /\ UNCHANGED <<not_stagevars, width, height, available_threads,
                   tile_coords, batch_start, tile_tasks>>

\* lines 225-239: the submit loop; the task captures its rectangle by value
BatchSubmit ==
    /\ stage_pc = "submit"
    /\ IF batch_i < batch_end
       THEN /\ tile_tasks' = Append(tile_tasks, TileRect(batch_i))
            /\ batch_i' = batch_i + 1
            /\ UNCHANGED stage_pc
       ELSE /\ stage_pc' = "wait"
            /\ UNCHANGED <<tile_tasks, batch_i>>
    /\ UNCHANGED <<not_stagevars, width, height, available_threads,
                   tile_coords, batch_start, batch_end>>

\* lines 251-301: a worker runs the task n; under framebuffer_mutex it adds
\* the tile's counters, number_of_iterations each, to the ray_counters of
\* the pixels of its rectangle
trace_tile_synchronized(n) ==
    /\ n \in DOMAIN tile_tasks
    /\ tile_tasks[n].merged = 0
    /\ tile_tasks' = [tile_tasks EXCEPT ![n].merged = @ + 1]
    /\ UNCHANGED <<not_stagevars, stage_pc, width, height,
                   available_threads, tile_coords, batch_start, batch_end,
                   batch_i>>

\* a tile task that finishes without the fetch_sub of line 305
TileFinish_NotCounting(n) ==
    /\ n \in DOMAIN tile_tasks
    /\ tile_tasks[n].merged > 0
    /\ ~tile_tasks[n].finished
    /\ tile_tasks' = [tile_tasks EXCEPT ![n].finished = TRUE]
    /\ UNCHANGED <<stage_untouched, active_tile_count, tiles_completed,
                   stage_pc, width, height, available_threads, tile_coords,
                   batch_start, batch_end, batch_i>>

\* lines 303-315: the task n decrements active_tile_count, signals the
\* completion if nothing remains, and returns, which makes its future ready
TileFinish(n) ==
    /\ n \in DOMAIN tile_tasks
    /\ tile_tasks[n].merged > 0
    /\ ~tile_tasks[n].finished
    /\ active_tile_count' = active_tile_count - 1
    /\ tiles_completed' = IF active_tile_count - 1 = 0 THEN TRUE
                          ELSE tiles_completed
    /\ tile_tasks' = [tile_tasks EXCEPT ![n].finished = TRUE]
    /\ UNCHANGED <<stage_untouched, stage_pc, width, height,
                   available_threads, tile_coords, batch_start, batch_end,
                   batch_i>>

\* a batch loop that goes on to the next batch without waiting
BatchWait_NotWaiting ==
    /\ stage_pc = "wait"
    /\ batch_start' = batch_start + MAX_TASKS_PER_BATCH
    /\ stage_pc' = "batch"
    /\ UNCHANGED <<not_stagevars, width, height, available_threads,
                   tile_coords, batch_end, batch_i, tile_tasks>>

\* line 242 and the increment of line 221: wait_for_tasks_ returns when
\* the future of every task submitted is ready
BatchWait ==
    /\ stage_pc = "wait"
    /\ \A n \in DOMAIN tile_tasks : tile_tasks[n].finished
    /\ batch_start' = batch_start + MAX_TASKS_PER_BATCH
    /\ stage_pc' = "batch"
    /\ UNCHANGED <<not_stagevars, width, height, available_threads,
                   tile_coords, batch_end, batch_i, tile_tasks>>

\* one call of the stage in tiled mode, on any viewport
InitStage ==
    /\ InitPathTracer
    /\ InitScheduler
    /\ NoManager
    /\ NoRay
    /\ InitPathTracing
    /\ NoStarter
    /\ NoCamera
    /\ pc = [t \in Threads |-> "idle"]
    /\ stage_pc = "begin"
    /\ \E viewport \in Viewports :
          /\ width = viewport[1]
          /\ height = viewport[2]
          /\ available_threads \in ThreadsFollowed(viewport)
    /\ tile_coords = <<>>
    /\ batch_start = 0
    /\ batch_end = 0
    /\ batch_i = 0
    /\ tile_tasks = <<>>

NextStage ==
    \/ GenerateTiles
    \/ BatchBegin
    \/ BatchSubmit
    \/ \E n \in DOMAIN tile_tasks : trace_tile_synchronized(n)
    \/ \E n \in DOMAIN tile_tasks : TileFinish(n)
    \/ BatchWait

SpecStage == InitStage /\ [][NextStage]_vars

\* the rendering thread and the workers that run the tile tasks are scheduled
FairSpecStage == SpecStage /\ WF_vars(NextStage)

\* Path_Tracer.cpp line 22: the elements of the thread-local tile_buffer
tile_buffer_capacity == 128 * 128

\* trace_tile_synchronized, lines 258-260
tile_width(t) == t.end_x - t.start_x
tile_height(t) == t.end_y - t.start_y
tile_size(t) == tile_width(t) * tile_height(t)

\* trace_tile_synchronized, lines 269-270 and 292-293: the indices of the
\* pixel (x, y) of the tile t
buffer_index(x, y) == y * width + x
tile_index(t, x, y) == (y - t.start_y) * tile_width(t) + (x - t.start_x)

\* the pixels at the corners of the tile t, where its indices are extreme
Corners(t) == {t.start_x, t.end_x - 1} \X {t.start_y, t.end_y - 1}

(* --------------------------- Path_Tracing.cpp ------------------------- *)
\* the rates enable_continuous_rendering is called with
DisplayFps == {0, 2000}

\* enable_continuous_rendering, lines 130-134
Clamped(display_fps) ==
    IF display_fps <= 0 \/ display_fps > 1000
    THEN Max(1, Min(display_fps, 1000))
    ELSE display_fps

\* a compute that takes a resize for the end of continuous rendering
WasContinuous_Forgotten == FALSE

\* compute, line 312: is_continuous_rendering_enabled()
WasContinuous == continuous_rendering_enabled

\* initialize_continuous_rendering, lines 208-218: the publisher is started
\* only over buffers that exist, at the rate target_display_fps has when the
\* function is called
initialize_continuous_rendering(display_fps) ==
    IF framebuffer # <<>>
    THEN start_continuous_updates_body(display_fps)
    ELSE UNCHANGED ptvars

\* enable_continuous_rendering, lines 127-152, up to the call of
\* start_continuous_updates; the thread goes on at `next`
EnableCall(display_fps, next) ==
    IF continuous_rendering_enabled
       /\ target_display_fps = Clamped(display_fps)
    THEN /\ c_pc' = next
         /\ UNCHANGED <<ptvars, continuous_rendering_enabled,
                        target_display_fps>>
    ELSE /\ continuous_rendering_enabled' = TRUE
         /\ target_display_fps' = Clamped(display_fps)
         /\ initialize_continuous_rendering(Clamped(display_fps))
         /\ c_pc' = next

\* disable_continuous_rendering, lines 154-167, up to the store of
\* stop_continuous_updates (Path_Tracer.cpp line 54)
DisableCall(next) ==
    IF ~continuous_rendering_enabled
    THEN /\ c_pc' = next
         /\ UNCHANGED <<ptvars, continuous_rendering_enabled>>
    ELSE /\ continuous_rendering_enabled' = FALSE
         /\ StopStore_body
         /\ c_pc' = next

\* the application enables continuous rendering between two frames
enable_continuous_rendering(display_fps) ==
    /\ c_pc = "idle"
    /\ ctl_pc = "idle"
    /\ EnableCall(display_fps, "enabling")
    /\ UNCHANGED <<not_ptcvars, window, frame_size, was_continuous,
                   previous_fps>>

\* the call of the Path_Tracer made at c_pc has returned
CallReturns(next) ==
    /\ ctl_pc = "idle"
    /\ app_pc = "idle"
    /\ c_pc' = next
    /\ UNCHANGED <<not_cvars, continuous_rendering_enabled,
                   target_display_fps, window, frame_size, was_continuous,
                   previous_fps>>

\* the user resizes the window between two frames
WindowResized(new_size) ==
    /\ c_pc = "idle"
    /\ window # new_size
    /\ window' = new_size
    /\ UNCHANGED <<not_cvars, c_pc, continuous_rendering_enabled,
                   target_display_fps, frame_size, was_continuous,
                   previous_fps>>

\* compute, lines 283-313: the size of the window is compared with the size
\* of the frame buffer
ComputeBegin ==
    /\ c_pc = "idle"
    /\ IF frame_size # window
       THEN /\ was_continuous' = WasContinuous
            /\ previous_fps' = target_display_fps
            /\ c_pc' = IF WasContinuous THEN "disable" ELSE "resize"
       ELSE /\ c_pc' = "restart"
            /\ UNCHANGED <<was_continuous, previous_fps>>
    /\ UNCHANGED <<not_cvars, continuous_rendering_enabled,
                   target_display_fps, window, frame_size>>

\* compute, lines 315-318
ComputeDisable ==
    /\ c_pc = "disable"
    /\ DisableCall("disabling_for_resize")
    /\ UNCHANGED <<not_ptcvars, target_display_fps, window, frame_size,
                   was_continuous, previous_fps>>

\* compute, lines 326-344, 376-388 and 418-430: the lambdas are handed to the
\* Path_Tracer (Path_Tracer.cpp lines 413-418)
ComputeEnableMultithreading(next) ==
    /\ use_multithreading_' = TRUE
    /\ c_pc' = next
    /\ UNCHANGED <<not_ptcvars, continuous_updates_active, tiles_completed,
                   active_tile_count, buffers, snapshot, appvars, tilevars,
                   pubvars, ctlvars, passvars, continuous_rendering_enabled,
                   target_display_fps, window, frame_size, was_continuous,
                   previous_fps>>

\* compute, lines 347-352, 391-396 and 433-438: trace is called with the size
\* of the window, which framebuffer.resize (Path_Tracer.hpp line 169) gives
\* the frame buffer; the camera is one that update_component_transforms
\* (line 302) moves in every frame
ComputeTrace(next) ==
    /\ IF frame_size # window
       THEN TraceResize_body(TRUE)
       ELSE TraceBegin_body(TRUE)
    /\ frame_size' = window
    /\ c_pc' = next
    /\ UNCHANGED <<not_ptcvars, continuous_rendering_enabled,
                   target_display_fps, window, was_continuous, previous_fps>>

\* compute, lines 354-358
ComputeReenable ==
    /\ c_pc = "resized"
    /\ IF was_continuous
       THEN EnableCall(previous_fps, "reenabling")
       ELSE /\ c_pc' = "restart"
            /\ UNCHANGED <<ptvars, continuous_rendering_enabled,
                           target_display_fps>>
    /\ UNCHANGED <<not_ptcvars, window, frame_size, was_continuous,
                   previous_fps>>

\* compute, lines 361-365: should_restart_continuous_rendering (lines
\* 225-230) and initialize_continuous_rendering
ComputeRestart ==
    /\ c_pc = "restart"
    /\ ctl_pc = "idle"
    /\ IF continuous_rendering_enabled /\ ~continuous_updates_active
       THEN initialize_continuous_rendering(target_display_fps)
       ELSE UNCHANGED ptvars
    /\ c_pc' = "render"
    /\ UNCHANGED <<not_ptcvars, continuous_rendering_enabled,
                   target_display_fps, window, frame_size, was_continuous,
                   previous_fps>>

\* compute, lines 400-407 and 442-447: the snapshot is fetched for the blit;
\* with the updates off get_snapshot_for_display does what get_snapshot does
ComputePresent ==
    /\ c_pc = "present"
    /\ get_snapshot_for_display_body
    /\ c_pc' = "presenting"
    /\ UNCHANGED <<not_ptcvars, continuous_rendering_enabled,
                   target_display_fps, window, frame_size, was_continuous,
                   previous_fps>>

\* the steps of one frame
compute ==
    \/ ComputeBegin
    \/ ComputeDisable
    \/ c_pc = "disabling_for_resize" /\ CallReturns("resize")
    \/ c_pc = "resize" /\ ComputeEnableMultithreading("resize_trace")
    \/ c_pc = "resize_trace" /\ ComputeTrace("resize_tracing")
    \/ c_pc = "resize_tracing" /\ CallReturns("resized")
    \/ ComputeReenable
    \/ c_pc = "reenabling" /\ CallReturns("restart")
    \/ ComputeRestart
    \/ c_pc = "render" /\ ComputeEnableMultithreading("trace")
    \/ c_pc = "trace" /\ ComputeTrace("tracing")
    \/ c_pc = "tracing" /\ CallReturns("present")
    \/ ComputePresent
    \/ c_pc = "presenting" /\ CallReturns("idle")

\* the application between two frames
Application ==
    \/ \E display_fps \in DisplayFps : enable_continuous_rendering(display_fps)
    \/ c_pc = "enabling" /\ CallReturns("idle")
    \/ \E new_size \in WindowSizes : WindowResized(new_size)

\* the frame loop, the application, and the threads of the Path_Tracer
NextCompute ==
    \/ compute
    \/ Application
    \/ StartReturn
    \/ StopRun
    \/ PubRun
    \/ PubSpuriousWake
    \/ ResizeCounters
    \/ ResizeSnapshot
    \/ ClearColor
    \/ ClearCount
    \/ TiledPass
    \/ blit_rgb_float

SpecCompute == InitPT /\ [][NextCompute]_vars

(* ----------------------------- Starter.cpp ---------------------------- *)
\* most hardware threads of a machine the model starts on
MaxHardware == 24
\* what std::thread::hardware_concurrency() may return, 0 included
HardwareConcurrency == 0..MaxHardware

\* a limb holds 16 bits; an unsigned has two limbs, a size_t two or four,
\* as the build is for 32 or 64 bits
Limb == 65536
unsigned_limbs == 2
size_t_limbs == {2, 4}

\* the word of `limbs` limbs that holds n modulo Limb^limbs
RECURSIVE Word(_, _)
Word(n, limbs) ==
    IF limbs = 0 THEN <<>>
    ELSE <<n % Limb>> \o Word(n \div Limb, limbs - 1)

\* a - b - borrow of two words of the same type: unsigned arithmetic wraps
\* around
RECURSIVE Minus(_, _, _)
Minus(a, b, borrow) ==
    IF a = <<>> THEN <<>>
    ELSE LET d == Head(a) - Head(b) - borrow IN
           <<d % Limb>> \o Minus(Tail(a), Tail(b), IF d < 0 THEN 1 ELSE 0)

\* a < b of two words of the same type
RECURSIVE Less(_, _)
Less(a, b) ==
    IF a = <<>> THEN FALSE
    ELSE IF a[Len(a)] # b[Len(b)] THEN a[Len(a)] < b[Len(b)]
    ELSE Less(SubSeq(a, 1, Len(a) - 1), SubSeq(b, 1, Len(b) - 1))

\* std::max<size_t>(a, b): b if a < b, a otherwise
std_max(a, b) == IF Less(a, b) THEN b ELSE a

\* the conversion of a size_t to unsigned keeps the low 32 bits
ToUnsigned(a) == SubSeq(a, 1, unsigned_limbs)

\* the conversion of an unsigned to a size_t of `limbs` limbs
ToSizeT(a, limbs) == a \o Word(0, limbs - Len(a))

\* Starter::initialize, line 47
StarterRead ==
    /\ starter_pc = "idle"
    /\ \E h \in HardwareConcurrency, limbs \in size_t_limbs :
         hardware_threads' = Word(h, limbs)
    /\ starter_pc' = "read"
    /\ UNCHANGED <<not_startervars, rendering_threads>>

\* Starter::initialize, line 48: 1u and 3 are converted to size_t, the
\* result to unsigned
StarterThreads ==
    /\ starter_pc = "read"
    /\ LET limbs == Len(hardware_threads) IN
         rendering_threads' =
            ToUnsigned(std_max(Word(1, limbs),
                               Minus(hardware_threads, Word(3, limbs), 0)))
    /\ starter_pc' = "threads"
    /\ UNCHANGED <<not_startervars, hardware_threads>>

\* Starter::initialize, lines 57-62: Thread_Pool_Manager::initialize is
\* called with the thread counts; the pools themselves are followed in
\* SpecMgr
StarterInitialize ==
    /\ starter_pc = "threads"
    /\ starter_pc' = "initialized"
    /\ UNCHANGED <<not_startervars, hardware_threads, rendering_threads>>

NextStarter ==
    \/ StarterRead
    \/ StarterThreads
    \/ StarterInitialize

SpecStarter == InitPT /\ [][NextStarter]_vars

(* -------------------------- Pinhole_Camera.cpp ------------------------ *)
\* the sizes <<width, height>> of the buffer of primary rays: one pixel, one
\* row, one column, one tile, several tiles, more tiles than a batch holds
CameraSizes ==
    {<<1, 1>>, <<2, 1>>, <<1, 2>>, <<2, 2>>, <<3, 2>>, <<33, 2>>, <<2, 33>>,
     <<129, 1>>}

\* what std::thread::hardware_concurrency() returns at line 77
CameraThreads == {0, 1}

\* a sensor position is the pair of its horizontal_step and vertical_step
\* offsets from sensor_bottom_left; the steps are taken to add up exactly
horizontal_step == <<1, 0>>
vertical_step == <<0, 1>>
Plus(p, q) == <<p[1] + q[1], p[2] + q[2]>>
Times(p, n) == <<p[1] * n, p[2] * n>>

\* Ray{ pixel, focal_point - pixel } stored at primary_rays[index]
Store(buffer, index, pixel) ==
    [buffer EXCEPT ![index] = [pixel |-> pixel, writes |-> @.writes + 1]]

\* the rays of a buffer, without the history
Rays(buffer) == [i \in DOMAIN buffer |-> buffer[i].pixel]

\* lines 66-73
CameraTileSize(total) ==
    IF total < 250000 THEN 32
    ELSE IF total < 1000000 THEN 64
    ELSE 128

\* lines 75-76 and 85-90: the number of tiles, tile_coords.size()
CameraTiles ==
    LET T == CameraTileSize(camera.buffer_width * camera.buffer_height)
    IN  ((camera.buffer_width + T - 1) \div T)
           * ((camera.buffer_height + T - 1) \div T)

\* lines 98-106: the bounds of the tile at tile_coords[i]
CameraTileRect(i) ==
    LET T == CameraTileSize(camera.buffer_width * camera.buffer_height)
        tiles_across == (camera.buffer_width + T - 1) \div T
        start_x == (i % tiles_across) * T
        start_y == (i \div tiles_across) * T
    IN  [start_x |-> start_x,
         start_y |-> start_y,
         end_x |-> Min(start_x + T, camera.buffer_width),
         end_y |-> Min(start_y + T, camera.buffer_height)]

\* generate_rays_for_tile, lines 144-162: the writes of one tile, each the
\* pair of a buffer index and the sensor position stored there
TileWrites(r) ==
    {<<(camera.buffer_height - 1 - y) * camera.buffer_width + x,
       Plus(Times(horizontal_step, x), Times(vertical_step, y))>> :
        x \in r.start_x..(r.end_x - 1), y \in r.start_y..(r.end_y - 1)}

\* a camera and a buffer of primary rays that prepare_buffers_stage
\* (Path_Tracer.hpp line 170) has sized; calculate has not been called
InitCameraBuffer ==
    \E extent \in CameraSizes :
       /\ camera = [pc |-> "idle", use_multithreading_ |-> FALSE,
                    calls |-> 0,
                    buffer_width |-> extent[1], buffer_height |-> extent[2],
                    row |-> 0, column |-> 0, buffer_offset |-> 0,
                    scanline_start |-> <<0, 0>>, pixel |-> <<0, 0>>,
                    available_threads |-> 0, batch_start |-> 0,
                    batch_end |-> 0, tasks |-> {}]
       /\ primary_rays =
            [i \in 0..(extent[1] * extent[2] - 1) |->
                [pixel |-> <<>>, writes |-> 0]]
       /\ first_call = <<>>

InitCamera ==
    /\ InitPathTracer
    /\ InitScheduler
    /\ NoManager
    /\ NoStage
    /\ NoRay
    /\ InitPathTracing
    /\ NoStarter
    /\ InitCameraBuffer
    /\ pc = [t \in Threads |-> "idle"]

\* enable_multithreading (lines 128-133) and disable_multithreading (lines
\* 135-140), called between two calls of calculate
CameraSetMultithreading(enabled) ==
    /\ camera.pc = "idle"
    /\ camera.calls < 2
    /\ camera.use_multithreading_ # enabled
    /\ camera' = [camera EXCEPT !.use_multithreading_ = enabled]
    /\ UNCHANGED <<not_camvars, primary_rays, first_call>>

\* calculate, lines 19-50 or 62-90: the sequential path sets scanline_start
\* and buffer_offset, the tiled path reads the hardware concurrency
CalculateBegin ==
    /\ camera.pc = "idle"
    /\ camera.calls < 2
    /\ IF ~camera.use_multithreading_
       THEN camera' =
              [camera EXCEPT !.pc = "row",
                             !.scanline_start = <<0, 0>>,
                             !.buffer_offset =
                                 camera.buffer_width * camera.buffer_height,
                             !.row = camera.buffer_height]
       ELSE \E threads \in CameraThreads :
              camera' = [camera EXCEPT !.pc = "batch",
                                       !.available_threads = threads,
                                       !.batch_start = 0]
    /\ primary_rays' =
         [i \in DOMAIN primary_rays |-> [primary_rays[i] EXCEPT !.writes = 0]]
    /\ UNCHANGED <<not_camvars, first_call>>

\* line 52: the test of the outer loop and the start of a scanline (line 54)
SequentialRow ==
    /\ camera.pc = "row"
    /\ camera' =
         IF camera.row > 0
         THEN [camera EXCEPT !.pc = "column",
                             !.pixel = camera.scanline_start,
                             !.column = camera.buffer_width]
         ELSE [camera EXCEPT !.pc = "return"]
    /\ UNCHANGED <<not_camvars, primary_rays, first_call>>

\* lines 56-59: one turn of the inner loop, or its end and the step of the
\* outer loop (line 52)
SequentialColumn ==
    /\ camera.pc = "column"
    /\ IF camera.column > 0
       THEN /\ primary_rays' =
                 Store(primary_rays, camera.buffer_offset - 1, camera.pixel)
            /\ camera' =
                 [camera EXCEPT !.buffer_offset = @ - 1,
                                !.column = @ - 1,
                                !.pixel = Plus(@, horizontal_step)]
       ELSE /\ camera' =
                 [camera EXCEPT !.pc = "row",
                                !.row = @ - 1,
                                !.scanline_start = Plus(@, vertical_step)]
            /\ UNCHANGED primary_rays
    /\ UNCHANGED <<not_camvars, first_call>>

\* lines 93-121: the test of the batch loop, batch_end, and the tiles of the
\* batch handed to submit_task_
CameraBatch ==
    /\ camera.pc = "batch"
    /\ camera' =
         IF camera.batch_start < CameraTiles
         THEN LET end == Min(camera.batch_start
                                + camera.available_threads * 4, CameraTiles)
              IN  [camera EXCEPT !.pc = "wait",
                                 !.batch_end = end,
                                 !.tasks = camera.batch_start..(end - 1)]
         ELSE [camera EXCEPT !.pc = "return"]
    /\ UNCHANGED <<not_camvars, primary_rays, first_call>>

\* a worker of the pool runs the task of tile i: generate_rays_for_tile
CameraTile(i) ==
    /\ i \in camera.tasks
    /\ primary_rays' =
         [index \in DOMAIN primary_rays |->
            LET writes == {w \in TileWrites(CameraTileRect(i)) :
                              w[1] = index}
            IN  IF writes = {} THEN primary_rays[index]
                ELSE [pixel |-> (CHOOSE w \in writes : TRUE)[2],
                      writes |-> primary_rays[index].writes
                                    + Cardinality(writes)]]
    /\ camera' = [camera EXCEPT !.tasks = @ \ {i}]
    /\ UNCHANGED <<not_camvars, first_call>>

\* line 124 and the step of the batch loop, line 93
CameraWait ==
    /\ camera.pc = "wait"
    /\ camera.tasks = {}
    /\ camera' =
         [camera EXCEPT !.pc = "batch",
                        !.batch_start = @ + camera.available_threads * 4]
    /\ UNCHANGED <<not_camvars, primary_rays, first_call>>

\* calculate returns
CalculateReturn ==
    /\ camera.pc = "return"
    /\ camera' = [camera EXCEPT !.pc = "idle", !.calls = @ + 1]
    /\ first_call' =
         IF camera.calls = 0
         THEN [use_multithreading_ |-> camera.use_multithreading_,
               rays |-> Rays(primary_rays)]
         ELSE first_call
    /\ UNCHANGED <<not_camvars, primary_rays>>

NextCamera ==
    \/ \E enabled \in BOOLEAN : CameraSetMultithreading(enabled)
    \/ CalculateBegin
    \/ SequentialRow
    \/ SequentialColumn
    \/ CameraBatch
    \/ \E i \in 0..(CameraTiles - 1) : CameraTile(i)
    \/ CameraWait
    \/ CalculateReturn

SpecCamera == InitCamera /\ [][NextCamera]_vars

(* ------------------- Path_Tracer.cpp: trace_ray ----------------------- *)
\* Path_Tracer.hpp line 41
recursion_limit == 10

\* A Color is followed as the value the innermost return gave ("sky" for
\* sky_environment.sample, "black" for Color(0, 0, 0), "attenuation" for the
\* attenuation of the last hit) and the number of attenuations it has been
\* multiplied by on the way back
Leaf(kind) == [leaf |-> kind, factors |-> 0]

\* attenuation * color, line 398
Attenuated(color) == [color EXCEPT !.factors = @ + 1]

\* the test of line 396 with the limit included
MayRecurse_LimitIncluded(depth) == depth <= recursion_limit

\* the test of line 396
MayRecurse(depth) == depth < recursion_limit

\* the sampling code calls trace_ray(ray, ..., 0), lines 169, 275 and 339
TraceRayCall ==
    /\ ray_pc = "idle"
    /\ ray_pc' = "enter"
    /\ ray_depth' = 0
    /\ ray_color' = <<>>
    /\ emitted_ray_count' = 0
    /\ UNCHANGED not_rayvars

\* line 385: the call is counted
RayEnter ==
    /\ ray_pc = "enter"
    /\ emitted_ray_count' = emitted_ray_count + 1
    /\ ray_pc' = "traverse"
    /\ UNCHANGED <<not_rayvars, ray_depth, ray_color>>

\* lines 390 and 406-409: the ray hits an object of the scene or it does not,
\* and then the sky is sampled
RayTraverse(hit) ==
    /\ ray_pc = "traverse"
    /\ IF hit
       THEN ray_pc' = "scatter" /\ UNCHANGED ray_color
       ELSE ray_pc' = "return" /\ ray_color' = Leaf("sky")
    /\ UNCHANGED <<not_rayvars, ray_depth, emitted_ray_count>>

\* lines 395-404: the material scatters the ray or not
RayScatter(scatters) ==
    /\ ray_pc = "scatter"
    /\ IF scatters /\ MayRecurse(ray_depth)
       THEN /\ ray_depth' = ray_depth + 1
            /\ ray_pc' = "enter"
            /\ UNCHANGED ray_color
       ELSE /\ ray_color' = IF scatters THEN Leaf("attenuation")
                            ELSE Leaf("black")
            /\ ray_pc' = "return"
            /\ UNCHANGED ray_depth
    /\ UNCHANGED <<not_rayvars, emitted_ray_count>>

\* a call returns: to the multiplication of line 398 in its caller, or, at
\* depth 0, to the sampling code
RayReturn ==
    /\ ray_pc = "return"
    /\ IF ray_depth > 0
       THEN /\ ray_depth' = ray_depth - 1
            /\ ray_color' = Attenuated(ray_color)
            /\ UNCHANGED ray_pc
       ELSE /\ ray_pc' = "idle"
            /\ UNCHANGED <<ray_depth, ray_color>>
    /\ UNCHANGED <<not_rayvars, emitted_ray_count>>

RayRun ==
    \/ RayEnter
    \/ \E hit \in BOOLEAN : RayTraverse(hit)
    \/ \E scatters \in BOOLEAN : RayScatter(scatters)
    \/ RayReturn

NextRay == TraceRayCall \/ RayRun

InitRay == InitPT

SpecRay == InitRay /\ [][NextRay]_vars

\* the thread that called trace_ray runs
FairSpecRay == SpecRay /\ WF_vars(RayRun)

(* ------------------------------- claims ------------------------------- *)
\* every pushed task is either still queued or was returned exactly once
ReturnedExactlyOnce ==
    \A id \in TaskIds :
       /\ returned[id] <= 1
       /\ (id \in tasks) <=> (returned[id] = 0)

\* a step that removes a task from the queue removes one whose priority is at
\* least as high as that of every task left in the queue
PopsMaximal ==
    \A x \in tasks \ tasks' : \A y \in tasks' : priority[x] <= priority[y]

\* C1: across any interleaving of push, pop and try_pop every pushed task is
\* returned exactly once (never twice, never lost), and a returned task has a
\* priority at least as high as every task still queued at that pop.
C1_ExactlyOnceMaxPriority == []ReturnedExactlyOnce /\ [][PopsMaximal]_vars

\* a task was returned ahead of a task of lower priority that was pushed
\* before it and is still queued
C1_Witness ==
    \E x \in TaskIds : \E z \in tasks :
       returned[x] = 1 /\ z < x /\ priority[x] < priority[z]

\* a consumer inside pop()
InPop(t) == pc[t] \in {"pop", "pop_wait"}

\* a pop that returns the null sentinel does so on a stopped, empty queue
NullOnlyWhenDrained ==
    \A t \in QClients :
       (InPop(t) /\ pc'[t] = "idle" /\ tasks' = tasks)
          => (q_stop_flag /\ empty)

\* on a stopped queue no pop blocks, and a pop on a non-empty queue takes a task
NoBlockAfterStop ==
    q_stop_flag =>
       /\ condition' \subseteq condition
       /\ \A t \in QClients :
            (InPop(t) /\ pc'[t] = "idle" /\ ~empty)
               => \E x \in tasks : tasks' = tasks \ {x}

\* the tasks queued on a stopped queue stay queued until a pop returns them
DrainedInOrder ==
    q_stop_flag =>
       /\ \A id \in tasks : returned[id] = 0
       /\ \A id \in tasks \ tasks' :
            /\ returned'[id] = 1
            /\ \A y \in tasks' : priority[id] <= priority[y]

\* C5: after stop() no pop() blocks forever: the consumers blocked at the stop
\* return, later pops return at once, yielding the queued tasks (each once,
\* highest priority first) and then the null sentinel; no queued task is lost.
C5_StopUnblocksAndDrains ==
    /\ \A t \in QClients : (q_stop_flag /\ InPop(t)) ~> (pc[t] = "idle")
    /\ [][NullOnlyWhenDrained /\ NoBlockAfterStop /\ DrainedInOrder]_vars

\* the queue was stopped and drained: a task was returned, the queue is empty
\* and a consumer is inside pop(), about to get the null sentinel
C5_Witness ==
    /\ q_stop_flag /\ empty
    /\ \E t \in QClients : pc[t] = "pop"
    /\ \E id \in TaskIds : returned[id] = 1

RaisedTasks == {r[1] : r \in raised}
RaisedIn == {r[2] : r \in raised}

\* wait_all() has returned and nothing was submitted since: every submitted
\* task has finished, the queue is empty and no worker is active or about to be
WaitAllQuiescent ==
    waited =>
       /\ get_queue_size = 0
       /\ get_active_threads = 0
       /\ \A id \in TaskIds : fulfilled[id] = 1
       /\ \A w \in Workers : pc[w] \notin {"got", "running", "dec"}

\* C2: when wait_all() returns with no concurrent submitter every task
\* submitted before has finished executing, and until the next submit
\* get_queue_size() = 0 and get_active_threads() = 0 hold: no task that was
\* dequeued but not yet counted as active is still to be executed.
C2_WaitAllReturnsQuiescent == WaitAllQuiescent

\* a raised failure is in the task's future, no worker has terminated, and the
\* counter of active threads counts the workers between ++ and --
FailureContained ==
    /\ \A id \in RaisedTasks : future[id] = "error"
    /\ \A id \in TaskIds :
         (started[id] = 1 /\ fulfilled[id] = 1 /\ id \notin RaisedTasks)
            => future[id] = "value"
    /\ \A w \in Workers : pc[w] # "terminated"
    /\ active_threads =
          Cardinality({w \in Workers : pc[w] \in {"running", "dec"}})

\* the end of an execution changes the future of the executed task only and
\* leaves the worker at its decrement, after which it is back in its loop
WorkerSurvives ==
    \A w \in Workers :
       /\ (pc[w] = "running" /\ pc'[w] # "running") =>
             /\ pc'[w] = "dec"
             /\ future'[local[w]] # "pending"
             /\ \A id \in TaskIds \ {local[w]} : future'[id] = future[id]
       /\ (pc[w] = "dec" /\ pc'[w] # "dec") =>
             /\ pc'[w] = "loop"
             /\ active_threads' = active_threads - 1

\* C7: a failure raised while a worker executes a task is captured and
\* delivered only through that task's future; the worker survives, decrements
\* active_threads and goes on to execute later tasks; other futures are
\* unaffected.
C7_FailureStaysInFuture == []FailureContained /\ [][WorkerSurvives]_vars

\* a worker in which a task raised is executing a later task, and the failure
\* is in the first task's future while the later one is still pending
C7_Witness ==
    \E w \in RaisedIn :
       /\ pc[w] = "running"
       /\ future[local[w]] = "pending"
       /\ \E id \in RaisedTasks : future[id] = "error"

\* no task is started or fulfilled twice, no two workers hold the same task,
\* and a future is ready exactly when its task's promise was set once
ExecutedAtMostOnce ==
    /\ \A id \in TaskIds :
         /\ returned[id] <= 1 /\ started[id] <= 1 /\ fulfilled[id] <= 1
         /\ started[id] <= returned[id]
         /\ (future[id] # "pending") <=> (fulfilled[id] = 1)
    /\ \A w1, w2 \in Workers :
         (w1 # w2 /\ local[w1] # nullptr) => local[w1] # local[w2]
    /\ \A w \in Workers :
         (pc[w] \in {"dec", "loop", "pop", "pop_wait", "done"}) =>
             \A id \in TaskIds :
                (started[id] = 1 /\ local[w] # id /\
                 ~\E v \in Workers : local[v] = id) => fulfilled[id] = 1

\* the task was submitted and its execution has finished
Executed(id) == id \in TaskIds /\ started[id] = 1 /\ fulfilled[id] = 1

\* C8: every submitted task is executed at most once, by exactly one worker,
\* and its result channel is fulfilled exactly once; while the pool is not
\* being destroyed every submitted task is eventually executed: whenever a
\* submitted task is not yet executed, a moment follows at which every
\* submitted task is, unless the destructor has set stop_flag.
C8_ExecutedExactlyOnce ==
    /\ []ExecutedAtMostOnce
    /\ (\E id \in TaskIds : ~Executed(id))
          ~> (stop_flag \/ \A id \in TaskIds : Executed(id))

\* every task the client could submit was executed and the pool is idle
C8_Witness ==
    /\ Len(priority) = MaxSubmit
    /\ \A id \in TaskIds : started[id] = 1 /\ fulfilled[id] = 1
    /\ ~stop_flag
    /\ active_threads = 0

\* C9: when a Thread_Pool is destroyed while tasks are still queued, every
\* task that never ran has its result channel fulfilled with a failure: no
\* future returned by submit stays pending after the pool is gone.
C9_DroppedTasksFail ==
    pc[Main] = "gone" =>
       \A id \in TaskIds :
          /\ future[id] # "pending"
          /\ started[id] = 0 => (future[id] = "error" /\ fulfilled[id] = 1)

\* the pool is gone and a task that never ran has a failed future
C9_Witness ==
    /\ pc[Main] = "gone"
    /\ \E id \in TaskIds : started[id] = 0 /\ future[id] = "error"

\* C10: when a Thread_Pool is destroyed a task already executing runs to
\* completion and fulfils its future before the destructor returns, and no
\* task that was still queued when the stop was signalled starts executing
\* afterwards.
C10_StopAbandonsQueued ==
    /\ pc[Main] \in {"destroy", "gone"} =>
          \A id \in TaskIds : started[id] = 1 => fulfilled[id] = 1
    /\ \A id \in stop_snapshot : started[id] = 0

\* the publisher is inside the loop that rewrites the snapshot (lines 117-124)
PublisherRecomputing == pub_pc \in {"read", "write"}

\* C3: while continuous updates are active and a tiled pass is in flight
\* (active_tile_count > 0) the publisher never performs a snapshot
\* recomputation, in every interleaving of trace calls, tile tasks and the
\* publisher loop, consecutive passes included.
C3_NoRecomputeDuringPass ==
    ~(continuous_updates_active /\ active_tile_count > 0
      /\ PublisherRecomputing)

\* C4: every pixel value the publisher writes to the snapshot is color/count
\* of a (color, count) pair read atomically together, never of a colour that
\* was advanced and a count that was not. Every sample has the colour
\* trace_ray, so a pair the accumulators hold between two writes is
\* (n * trace_ray, n) and its quotient is trace_ray; a pixel not yet written
\* is black.
C4_SnapshotFromAtomicPair ==
    \A k \in DOMAIN snapshot : snapshot[k] \in {Black, Divide(trace_ray, 1)}

(* ------------------------ Thread_Pool_Manager ------------------------- *)
\* C11: get_pool and initialize are safe under concurrent callers: between
\* the lookup of a get_pool call and its return no other caller changes the
\* registry entry of the role, so a caller that found no pool creates the
\* only one and a caller that found a pool returns the one still registered
C11_RegistryAccessExclusive ==
    \A t \in Callers :
        /\ m_pc[t] = "create" => pools[m_arg[t]] = nullptr
        /\ m_pc[t] = "return_it" => pools[m_arg[t]] = m_it[t]
        /\ m_pc[t] = "return_new" => pools[m_arg[t]] = Len(pool_workers)

\* the step with which a get_pool call returns
GetPoolReturns(t) ==
    /\ m_pc[t] \in {"return_new", "return_it"}
    /\ m_pc'[t] = "idle"

\* what get_pool has done when it returns, given the registry at the call
GetPoolPost(t) ==
    LET type == m_arg[t]
        before == m_seen[t].pools
        n == m_seen[t].n
    IN IF before[type] # nullptr
       THEN /\ m_ret'[t] = before[type]
            /\ pool_workers'[m_ret'[t]] > 0
            /\ pools' = before
            /\ Len(pool_workers') = n
       ELSE /\ m_ret'[t] = n + 1
            /\ Len(pool_workers') = n + 1
            /\ pool_workers'[n + 1] = Thread_Pool_ctor(0)
            /\ pools' = [before EXCEPT ![type] = n + 1]

\* C12: get_pool(role) returns the pool registered for the role and creates
\* nothing; when no pool is registered for the role it creates exactly one
\* pool of the default size, registers it and returns it
C12_GetPoolReturnsRegistered ==
    [][\A t \in Callers : GetPoolReturns(t) => GetPoolPost(t)]_vars

\* get_pool has created, registered and returned a pool for a role that had
\* none
C12_Witness ==
    /\ m_pc[1] = "idle"
    /\ m_seen[1].op = "get_pool"
    /\ m_seen[1].pools[m_arg[1]] = nullptr
    /\ m_ret[1] = Len(pool_workers)
    /\ pools[m_arg[1]] = m_ret[1]

\* the step with which an initialize call returns
InitializeReturns(t) ==
    /\ m_pc[t] = "input"
    /\ m_pc'[t] = "idle"

\* what initialize has done when it returns
InitializePost(t) ==
    LET counts == m_arg[t]
        n == m_seen[t].n
    IN /\ \A type \in Thread_Pool_Type : pools'[type] > n
       /\ Cardinality(Registered(pools')) = Cardinality(Thread_Pool_Type)
       /\ \A type \in Thread_Pool_Type :
            counts[type] # 0 => pool_workers'[pools'[type]] = counts[type]
       /\ \A id \in Registered(m_seen[t].pools) : pool_workers'[id] = 0

\* C13: when initialize(g, r, l, i) returns the registry holds the four role
\* pools, each created by this call with the given non-zero thread count, and
\* every pool registered before the call is destroyed, its workers joined
C13_InitializeReplacesPools ==
    [][\A t \in Callers : InitializeReturns(t) => InitializePost(t)]_vars

\* initialize has returned after replacing registered pools
C13_Witness ==
    /\ m_pc[1] = "idle"
    /\ m_seen[1].op = "initialize"
    /\ Registered(m_seen[1].pools) # {}
    /\ \E type \in Thread_Pool_Type : m_arg[1][type] # 0

(* ---------------------------- Path_Tracer ----------------------------- *)
\* the publisher begins a recomputation while the tiled mode is on
RecomputeBegins ==
    /\ pub_pc = "wait"
    /\ pub_pc' = "read"
    /\ use_multithreading_

\* C14: in continuous tiled mode every recomputation of the snapshot is for
\* exactly one completed pass: one pass, not none and not several, has
\* completed since the updates were started or the last recomputation began
C14_OneRecomputePerPass ==
    [][RecomputeBegins => unpublished_passes = 1]_vars

\* a thread is inside stop_continuous_updates
InStop == ctl_pc \in {"stop_lock", "stop_notify", "stop_join"}

\* when no call is under way and the updates are off, no publisher thread
\* exists that could write the snapshot
StoppedMeansNoPublisher ==
    (ctl_pc = "idle" /\ ~continuous_updates_active) => pub_pc = "none"

\* stop_continuous_updates returns only when the publisher thread has exited
StopReturnsAfterExit ==
    (InStop /\ ctl_pc' = "idle") => (pub_pc \in {"none", "exited"}
                                     /\ pub_pc' = "none")

\* C15: stop_continuous_updates, called in any state of the publisher and
\* while tiles are in flight, always returns, returns only after the publisher
\* thread has exited, and leaves no thread that writes the snapshot
C15_StopAlwaysReturns ==
    /\ InStop ~> ctl_pc = "idle"
    /\ []StoppedMeansNoPublisher
    /\ [][StopReturnsAfterExit]_vars

\* stop is about to return, the publisher has exited and tiles of the pass
\* are still in flight
C15_Witness ==
    /\ ctl_pc = "stop_join"
    /\ pub_pc = "exited"
    /\ \E k \in Tiles : tile[k] \in {"queued", "merging"}

\* a step of a start_continuous_updates call made while the updates are
\* active: the test at line 29 and the return at line 30
StartWhileActive ==
    \/ ctl_pc = "idle" /\ ctl_pc' = "start_return"
    \/ ctl_pc = "start_return" /\ ctl_pc' = "idle"

\* a publisher thread is created
ThreadCreated == pub_pc' = "loop" /\ pub_pc \notin {"loop", "reset"}

\* C16: start_continuous_updates called while the updates are active starts
\* no thread and leaves the interval, the completion flag and the tile counter
\* unchanged; the interval changes and a thread is created only while no
\* publisher exists
C16_StartWhileActiveIsNoOp ==
    [][/\ StartWhileActive =>
            UNCHANGED <<flags, snapshot_update_interval, pubvars>>
       /\ snapshot_update_interval' # snapshot_update_interval =>
            ~continuous_updates_active
       /\ ThreadCreated => (pub_pc = "none" /\ ~continuous_updates_active)
      ]_vars

\* a call made while active, with a rate other than the current one, is at
\* its return
C16_Witness ==
    /\ ctl_pc = "start_return"
    /\ continuous_updates_active
    /\ pub_pc # "none"
    /\ snapshot_update_interval # Divide(1, ctl_rate)

\* the tiled stage has returned
StageReturned == stage_pc = "return"

\* the task n has added its counters to the pixel (x, y)
Sampled(n, x, y) ==
    /\ tile_tasks[n].merged > 0
    /\ tile_tasks[n].start_x <= x
    /\ x < tile_tasks[n].end_x
    /\ tile_tasks[n].start_y <= y
    /\ y < tile_tasks[n].end_y

\* what the pass has added to ray_counters[y * width + x], for tiles that lie
\* inside the viewport
AddedCount(x, y) ==
    number_of_iterations
        * Cardinality({n \in DOMAIN tile_tasks : Sampled(n, x, y)})

\* every tile is a non-empty rectangle inside the viewport
TilesInside ==
    \A n \in DOMAIN tile_tasks :
       /\ 0 <= tile_tasks[n].start_x
       /\ tile_tasks[n].start_x < tile_tasks[n].end_x
       /\ tile_tasks[n].end_x <= width
       /\ 0 <= tile_tasks[n].start_y
       /\ tile_tasks[n].start_y < tile_tasks[n].end_y
       /\ tile_tasks[n].end_y <= height

\* no two tiles share a pixel
TilesDisjoint ==
    \A n, m \in DOMAIN tile_tasks :
       n < m =>
          \/ tile_tasks[n].end_x <= tile_tasks[m].start_x
          \/ tile_tasks[m].end_x <= tile_tasks[n].start_x
          \/ tile_tasks[n].end_y <= tile_tasks[m].start_y
          \/ tile_tasks[m].end_y <= tile_tasks[n].start_y

\* the sum of what the first n tasks have added to the counts of their pixels
RECURSIVE AddedSum(_)
AddedSum(n) ==
    IF n = 0 THEN 0
    ELSE AddedSum(n - 1)
         + tile_tasks[n].merged * number_of_iterations
             * (tile_tasks[n].end_x - tile_tasks[n].start_x)
             * (tile_tasks[n].end_y - tile_tasks[n].start_y)

\* C17: when the tiled stage returns, the tiles it submitted lie inside the
\* viewport, no two of them overlap, the counts grew by number_of_iterations
\* times the number of pixels in total and, pixel by pixel, by
\* number_of_iterations, which is what a sequential pass adds to every count
C17_TilesCoverEveryPixelOnce ==
    StageReturned =>
       /\ TilesInside
       /\ TilesDisjoint
       /\ AddedSum(Len(tile_tasks)) = number_of_iterations * width * height
       /\ (width <= MaxWidth /\ height <= MaxHeight) =>
             \A x \in 0..(width - 1), y \in 0..(height - 1) :
                AddedCount(x, y) = number_of_iterations

\* a pass of several batches has returned on a viewport whose last column and
\* last row of tiles are cut by the viewport's edge
C17_Witness ==
    /\ StageReturned
    /\ Len(tile_tasks) > MAX_TASKS_PER_BATCH
    /\ tiles_x > 1
    /\ tiles_y > 1
    /\ width % TILE_SIZE # 0
    /\ height % TILE_SIZE # 0
    /\ width <= MaxWidth

\* the step with which trace returns
TraceReturns ==
    /\ app_pc \in {"seq_notify", "wait_tasks"}
    /\ app_pc' = "idle"

\* C18: when trace returns, a pixel's count is the number of iterations if the
\* camera had changed since the last call, and its count before the call plus
\* the number of iterations if not
C18_CameraChangeRestarts ==
    [][TraceReturns =>
         \A k \in Tiles :
            ray_counters'[k] = IF pass_changed THEN number_of_iterations
                               ELSE pass_before[k] + number_of_iterations]_vars

\* a pass that follows a camera change is complete: the counts accumulated
\* before it are gone
C18_Witness ==
    /\ app_pc \in {"seq_notify", "wait_tasks"}
    /\ pass_changed
    /\ \A k \in Tiles : pass_before[k] > 0
    /\ \A k \in Tiles : ray_counters[k] = number_of_iterations
    /\ \A k \in Tiles : tile[k] \in {"none", "done"}

\* C19: in continuous mode the window blit never reads the snapshot buffer
\* while the publisher is storing into it
C19_PresentationReadsCoherentSnapshot ==
    ~(app_pc = "blit" /\ continuous_updates_active /\ pub_pc = "write")

(* ----------------------------- Thread_Pool ---------------------------- *)
\* C20: active_threads never exceeds the number of workers and never goes
\* below zero
C20_ActiveThreadsInRange == active_threads \in 0..NWorkers

\* every worker of the pool is executing a task
C20_Witness ==
    /\ active_threads = NWorkers
    /\ \A w \in Workers : pc[w] = "running"


(* ----------------------------- Task_Queue ----------------------------- *)
\* the thread t takes a step of a stop() call: it sets the flag, or it
\* notifies and returns
StopStep(t) ==
    \/ pc[t] = "idle" /\ pc'[t] = "stop_notify"
    \/ pc[t] = "stop_notify" /\ pc'[t] = "idle"

\* C21: stop() is idempotent: a step of stop() on a queue whose flag is
\* already set leaves the queued tasks, the flag and the tasks' state as they
\* are, and once no consumer is blocked it changes nothing of the queue and
\* of the other threads, so that push, pop and try_pop behave after it as
\* they did before; a stopped queue with no blocked consumer stays so
C21_StopIdempotent ==
    [][/\ \A t \in QClients :
             (StopStep(t) /\ q_stop_flag) =>
                /\ UNCHANGED <<tasks, q_stop_flag, tvars, local, returned>>
                /\ condition = {} =>
                      /\ UNCHANGED condition
                      /\ \A u \in QClients \ {t} : pc'[u] = pc[u]
       /\ (q_stop_flag /\ condition = {}) =>
             (q_stop_flag' /\ condition' = {})
      ]_vars

\* two stop() calls have set the flag of a queue that holds a task and has no
\* blocked consumer; both are still to notify and return
C21_Witness ==
    /\ q_stop_flag
    /\ tasks # {}
    /\ condition = {}
    /\ \E t, u \in QClients :
          /\ t # u
          /\ pc[t] = "stop_notify"
          /\ pc[u] = "stop_notify"


(* ---------------------------- Path_Tracer ----------------------------- *)
\* C22: tiles_completed turns true only in the step of the tile task whose
\* decrement brought active_tile_count to zero (lines 309-312); no step of
\* start_continuous_updates, stop_continuous_updates or the sequential pass
\* turns it true
C22_OnlyLastTileSetsFlag ==
    [][(~tiles_completed /\ tiles_completed') =>
          \E k \in Tiles : tile[k] = "signal" /\ tile'[k] = "notify"]_vars


(* ----------------------------- Thread_Pool ---------------------------- *)
\* the client thread is inside ~Thread_Pool
InDtor == pc[Main] \in {"dtor", "stop_notify", "join", "destroy"}

\* after the notify_all of the destructor no worker is blocked in pop
DtorWakesWorkers ==
    pc[Main] \in {"join", "destroy", "gone"} => condition = {}

\* the joins return when every worker has left its loop
DtorJoinsWorkers ==
    pc[Main] \in {"destroy", "gone"} => \A w \in Workers : pc[w] = "done"

\* C23: the destruction of a Thread_Pool terminates when every executing
\* task terminates: the destructor, once entered, returns, whatever tasks
\* are queued; no worker stays blocked in pop after its notify_all, and it
\* returns only when every worker has left its loop and is joined
C23_DestructorTerminates ==
    /\ InDtor ~> pc[Main] = "gone"
    /\ []DtorWakesWorkers
    /\ []DtorJoinsWorkers

\* the pool is gone; when it was stopped tasks were queued, and a worker was
\* executing a task
C23_Witness ==
    /\ pc[Main] = "gone"
    /\ stop_snapshot # {}
    /\ \E id \in TaskIds : id \notin stop_snapshot /\ fulfilled[id] = 1
    /\ \A w \in Workers : pc[w] = "done"


(* ------------------------ Thread_Pool_Manager ------------------------- *)
\* the caller t constructs a Thread_Pool in this step
Constructs(t) ==
    /\ m_pc'[t] # m_pc[t]
    /\ Len(pool_workers') = Len(pool_workers) + 1

\* the thread count the caller t passes to the constructor in this step:
\* none (0) in get_pool, the argument of the role in initialize
ConstructedWith(t) ==
    IF m_pc[t] = "create" THEN 0
    ELSE IF m_pc[t] = "idle" THEN m_arg'[t][GENERAL]
    ELSE IF m_pc[t] = "rendering" THEN m_arg[t][RENDERING]
    ELSE IF m_pc[t] = "loading" THEN m_arg[t][LOADING]
    ELSE m_arg[t][INPUT]

\* C24: a Thread_Pool constructed with a thread count n other than zero has n
\* workers; constructed with zero it has at least 2 workers, and as many as
\* hardware_concurrency() reports when that is 2 or more
C24_WorkerCount ==
    [][\A t \in Callers :
          Constructs(t) =>
             LET n == ConstructedWith(t)
                 owned == pool_workers'[Len(pool_workers')]
             IN  IF n # 0 THEN owned = n
                 ELSE /\ owned >= 2
                      /\ hardware_concurrency >= 2 =>
                            owned = hardware_concurrency]_vars


(* ------------------- Path_Tracer: the tiled stage --------------------- *)
\* the tile tasks submitted and not yet finished
Unfinished == {n \in DOMAIN tile_tasks : ~tile_tasks[n].finished}

\* C25: at most hardware_concurrency() x 4 tile tasks of a pass are submitted
\* and unfinished at any time, and every unfinished task belongs to the batch
\* being submitted or waited for: the tasks of the batches before it have
\* all finished
C25_BatchesBounded ==
    /\ Cardinality(Unfinished) <= MAX_TASKS_PER_BATCH
    /\ \A n \in Unfinished : n > batch_start

\* a whole batch other than the first is in flight, none of its tasks
\* finished
C25_Witness ==
    /\ batch_start > 0
    /\ MAX_TASKS_PER_BATCH > 0
    /\ Cardinality(Unfinished) = MAX_TASKS_PER_BATCH
    /\ stage_pc = "wait"


(* ---------------------------- Path_Tracer ----------------------------- *)
\* the colour of pixel k has been advanced and its count not yet: the
\* sequential loop is between lines 169 and 170, or a tile task between its
\* two stores under framebuffer_mutex
HalfAdvanced(k) ==
    \/ app_pc = "seq_count" /\ app_index = k
    \/ tile[k] = "merging"

\* C26: the colour and the count of a pixel advance together inside one lock
\* acquisition, so that no other thread observes one advanced without the
\* other: the publisher is never about to read a pixel whose colour has been
\* advanced and whose count has not
C26_AdvancedTogether ==
    \A k \in Tiles :
       ~(HalfAdvanced(k) /\ pub_pc \in {"read", "write"} /\ pub_index = k)


(* ------------------- a pass during which stop is called --------------- *)
\* trace has been called and has not returned
InTrace == app_pc \in {"sample", "submit", "wait_tasks"}

\* a submitted tile task stays submitted until it has finished: nothing takes
\* it out of the pass
TaskNotCancelled ==
    \A k \in Tiles :
       tile[k] \notin {"none", "done"} => tile'[k] # "none"

\* the stopped state need not begin with the call's return: the flag is false
\* from the store at line 54 on
StopCalled == InStop \/ ~continuous_updates_active

\* C27: tile tasks in flight when stop_continuous_updates is called are not
\* cancelled: the pass adds the number of iterations to every pixel's count
\* and trace returns
C27_StopLeavesPassWhole ==
    /\ InTrace ~> app_pc = "idle"
    /\ [][TaskNotCancelled]_vars
    /\ [][(TraceReturns /\ StopCalled) =>
            \A k \in Tiles :
               ray_counters'[k] = pass_before[k] + number_of_iterations]_vars

\* stop_continuous_updates has stored the flag and waits for the publisher
\* while part of the pass has merged and part of it is still in flight
C27_Witness ==
    /\ InStop
    /\ ~continuous_updates_active
    /\ app_pc = "wait_tasks"
    /\ \E k \in Tiles : tile[k] = "done"
    /\ \E k \in Tiles : tile[k] = "queued"
    /\ \E k \in Tiles : ray_counters[k] > number_of_iterations

(* -------------- the publisher and buffers that do not match ----------- *)
\* the publisher thread takes a step
PublisherStep == pub_pc' # pub_pc /\ pub_pc \notin {"none", "exited"}

\* the publisher's wait is over: a pass is complete and the updates are on
WokeForPass ==
    /\ pub_pc \in {"wait", "blocked"}
    /\ pub_pc' \notin {"wait", "blocked"}
    /\ tiles_completed
    /\ continuous_updates_active

\* one of the three buffers is empty, or two of them differ in size
BuffersUnusable ==
    \/ framebuffer = <<>>
    \/ ray_counters = <<>>
    \/ snapshot = <<>>
    \/ Len(framebuffer) # Len(ray_counters)
    \/ Len(framebuffer) # Len(snapshot)

\* the cycle is given up: nothing is read or stored, only the flag is reset
\* before the next turn of the loop
SkipsCycle ==
    /\ pub_pc' = "reset"
    /\ UNCHANGED <<snapshot, pub_index, pub_color>>

\* the end of a cycle leads back to the head of the loop
EndsCycle ==
    /\ pub_pc' = "loop"
    /\ ~tiles_completed'
    /\ UNCHANGED snapshot

\* C28: a publisher that wakes for a complete pass and finds the buffers
\* empty or of different sizes stores nothing into the snapshot in that cycle
\* and goes on with the next cycle
C28_MismatchSkipsCycle ==
    /\ [][(PublisherStep /\ WokeForPass /\ BuffersUnusable) =>
            SkipsCycle]_vars
    /\ [][(PublisherStep /\ pub_pc = "reset") => EndsCycle]_vars

\* the publisher has given up a cycle while prepare_buffers_stage was between
\* the sizing of ray_counters and the sizing of the snapshot
C28_Witness ==
    /\ pub_pc = "reset"
    /\ app_pc = "resize_snapshot"
    /\ framebuffer # <<>>
    /\ Len(ray_counters) = Len(framebuffer)
    /\ snapshot = <<>>

(* ------------------- pixels that have no sample yet ------------------- *)
\* the publisher executes the store of line 120 for pixel k
PublisherStores(k) ==
    /\ pub_pc = "write"
    /\ pub_pc' # "write"
    /\ pub_index = k

\* get_snapshot_for_display calls get_snapshot (Path_Tracer.cpp line 154)
CallsGetSnapshot ==
    /\ app_pc = "idle"
    /\ app_pc' = "blit"
    /\ ~continuous_updates_active

\* C29: the publisher stores snapshot pixel i only when count[i] > 0, so a
\* step of the publisher leaves the snapshot value of every pixel whose count
\* is 0 as it was, while get_snapshot sets such pixels to black
C29_UnsampledPixelsKept ==
    /\ [][\A k \in Tiles : PublisherStores(k) => ray_counters[k] > 0]_vars
    /\ [][PublisherStep =>
            \A k \in DOMAIN snapshot \cap DOMAIN ray_counters :
               ray_counters[k] = 0 => snapshot'[k] = snapshot[k]]_vars
    /\ [][CallsGetSnapshot =>
            \A k \in DOMAIN ray_counters :
               ray_counters[k] = 0 => snapshot'[k] = Black]_vars

(* ------------------------- the edge of a tile ------------------------- *)
\* the task n covers a square of the given edge that starts at a multiple of
\* the edge, cut at the viewport's right and bottom borders
TaskHasEdge(n, edge) ==
    /\ tile_tasks[n].start_x % edge = 0
    /\ tile_tasks[n].start_y % edge = 0
    /\ tile_tasks[n].end_x = Min(tile_tasks[n].start_x + edge, width)
    /\ tile_tasks[n].end_y = Min(tile_tasks[n].start_y + edge, height)

\* every task the pass has submitted has that edge
PassHasEdge(edge) == \A n \in DOMAIN tile_tasks : TaskHasEdge(n, edge)

\* C30: the edge of the tiles of a pass is 32 below 250000 pixels, 64 from
\* 250000 up to but excluding 1000000 pixels and 128 from 1000000 pixels on,
\* so it never decreases when the number of pixels grows
C30_TileEdgeByPixelCount ==
    /\ width * height < 250000 => PassHasEdge(32)
    /\ (250000 <= width * height /\ width * height < 1000000) =>
          PassHasEdge(64)
    /\ 1000000 <= width * height => PassHasEdge(128)

\* a pass over exactly 250000 pixels has returned, its tiles have the edge 64
C30_Witness ==
    /\ StageReturned
    /\ width * height = 250000
    /\ tile_tasks # <<>>
    /\ \E n \in DOMAIN tile_tasks :
          /\ tile_tasks[n].merged > 0
          /\ tile_tasks[n].end_x - tile_tasks[n].start_x = 64
          /\ tile_tasks[n].end_y - tile_tasks[n].start_y = 64

(* ------------------------------ trace_ray ----------------------------- *)
\* a call of trace_ray is under way
InTraceRay == ray_pc \in {"enter", "traverse", "scatter", "return"}

\* trace_ray calls itself
Recurses == ray_depth' = ray_depth + 1

\* the innermost call returns the attenuation alone, with no further call
ReturnsAttenuation ==
    /\ ray_pc' = "return"
    /\ ray_color' = Leaf("attenuation")
    /\ UNCHANGED <<ray_depth, emitted_ray_count>>

\* C31: a call trace_ray(ray, depth 0) terminates whatever the intersection
\* and scatter outcomes: trace_ray is entered at most 11 times, at depths 0
\* to 10; it recurses only from a hit whose material scatters at a depth
\* below 10; a material that scatters at depth 10 makes it return the
\* attenuation alone
C31_RecursionBounded ==
    /\ InTraceRay ~> ray_pc = "idle"
    /\ [](emitted_ray_count <= 11 /\ ray_depth \in 0..10)
    /\ [][Recurses => ray_pc = "scatter" /\ ray_depth < 10]_vars
    /\ [][(ray_pc = "scatter" /\ ray_depth = 10 /\ ray_pc' # "scatter") =>
            (ReturnsAttenuation \/ ray_color' = Leaf("black"))]_vars

\* the call at depth 0 returns after eleven calls, the innermost of which
\* returned the attenuation alone
C31_Witness ==
    /\ ray_pc = "return"
    /\ ray_depth = 0
    /\ emitted_ray_count = 11
    /\ ray_color = [leaf |-> "attenuation", factors |-> 10]

(* ---------------------- the end of a tiled pass ----------------------- *)
\* the stage is inside sample_primary_rays_stage
InStage == stage_pc \in {"begin", "batch", "submit", "wait"}

\* the increment of the batch loop, line 221
NextBatch == stage_pc = "wait" /\ stage_pc' = "batch"

\* the tile at tile_coords[i] has been submitted that many times
Submitted(i) ==
    Cardinality({n \in DOMAIN tile_tasks :
                   /\ tile_tasks[n].start_x = TileRect(i).start_x
                   /\ tile_tasks[n].start_y = TileRect(i).start_y})

\* C32: a tiled trace call always returns, for every viewport and every
\* value of hardware_concurrency, 0 included: the batch loop advances, every
\* tile is submitted exactly once, and the call returns after all tiles have
\* merged
C32_TiledTraceReturns ==
    /\ InStage ~> StageReturned
    /\ [][NextBatch => batch_start' > batch_start]_vars
    /\ [](StageReturned =>
            /\ \A i \in 0..(Len(tile_coords) - 1) : Submitted(i) = 1
            /\ \A n \in DOMAIN tile_tasks : tile_tasks[n].merged > 0)

(* ------------------- the completion signal of a pass ------------------ *)
\* a tiled pass has completed and no recomputation has begun since
PassUnpublished == unpublished_passes > 0

\* C33: while the continuous updates stay active, every completed tiled pass
\* is followed by a recomputation of the snapshot that begins after the
\* pass's last merge: the completion signal is not lost, whatever the
\* publisher was doing when the pass completed
C33_PassEventuallyPublished ==
    PassUnpublished ~> (~PassUnpublished \/ ~continuous_updates_active)

\* a pass has completed while the publisher was recomputing: its last tile
\* waits for the mutex to signal
C33_Witness ==
    /\ continuous_updates_active
    /\ PassUnpublished
    /\ PublisherRecomputing
    /\ \E k \in Tiles : tile[k] = "signal"

(* --------------------------- active_tile_count ------------------------ *)
\* the tasks of the pass that have merged, and those that have finished
MergedTasks == {n \in DOMAIN tile_tasks : tile_tasks[n].merged > 0}
FinishedTasks == {n \in DOMAIN tile_tasks : tile_tasks[n].finished}

\* the pass has set the counter
PassCounting == stage_pc \notin {"none", "begin"}

\* the counter is the number of tiles of the pass whose task has not yet got
\* past its merge and its decrement, whatever the batch of the tile; it is
\* not negative and not below the number of tiles still to be merged
CountsOutstandingTiles ==
    PassCounting =>
       /\ active_tile_count = total_tiles - Cardinality(FinishedTasks)
       /\ active_tile_count >= 0
       /\ active_tile_count >= total_tiles - Cardinality(MergedTasks)

\* the counter reaches zero only when every tile of the pass has merged, and
\* then it stays at zero until the pass returns
ZeroOncePerPass ==
    /\ (active_tile_count # 0 /\ active_tile_count' = 0) =>
          /\ Cardinality(MergedTasks) = total_tiles
          /\ batch_end = Len(tile_coords)
    /\ (PassCounting /\ active_tile_count = 0) => active_tile_count' = 0

\* C34: during a tiled pass active_tile_count is the number of the pass's
\* tiles that have not finished: never negative, never below the work still
\* outstanding across the batches, zero once per pass and only after the
\* last tile of the last batch has merged
C34_CountsUnfinishedTiles ==
    /\ [](CountsOutstandingTiles /\ (StageReturned => active_tile_count = 0))
    /\ [][ZeroOncePerPass]_vars

\* a pass of several batches has returned with the counter at zero
C34_Witness ==
    /\ StageReturned
    /\ active_tile_count = 0
    /\ MAX_TASKS_PER_BATCH > 0
    /\ Cardinality(FinishedTasks) > MAX_TASKS_PER_BATCH

\* prepare_buffers_stage is giving the buffers their dimensions
Resizing == app_pc \in {"resize_counters", "resize_snapshot"}

\* a buffer gets other dimensions or its elements in this step
DimensionsChange ==
    \/ frame_size' # frame_size
    \/ Len(framebuffer') # Len(framebuffer)
    \/ Len(ray_counters') # Len(ray_counters)
    \/ Len(snapshot') # Len(snapshot)

\* the publisher thread is created in this step
PublisherStarts == pub_pc = "none" /\ pub_pc' # "none"

\* C35: under compute the frame buffers change dimensions only while no
\* publisher thread exists: a frame that finds another window size stops the
\* updates and joins the publisher before trace resizes the buffers, the
\* publisher is started again only after that trace has returned, and
\* enabling continuous rendering before the buffers exist starts no publisher
\* until the first frame has made them
C35_ResizeWithoutPublisher ==
    /\ [](Resizing => pub_pc = "none" /\ ~continuous_updates_active)
    /\ [][DimensionsChange => pub_pc = "none" /\ pub_pc' = "none"]_vars
    /\ [][PublisherStarts =>
            app_pc = "idle" /\ framebuffer # <<>> /\ snapshot # <<>>]_vars
    /\ [](continuous_rendering_enabled /\ framebuffer = <<>> =>
            pub_pc = "none")
    /\ [](c_pc = "render" /\ continuous_rendering_enabled =>
            continuous_updates_active /\ pub_pc # "none")

\* a frame that found another window size while continuous rendering was on
\* is resizing buffers that a publisher has been reading
C35_Witness ==
    /\ Resizing
    /\ c_pc = "resize_tracing"
    /\ was_continuous
    /\ ray_counters # <<>>
    /\ frame_size = <<1, NTiles>>

\* a call of enable_continuous_rendering has got to its return
EnableReturns == c_pc \in {"enabling", "reenabling"} /\ ctl_pc = "idle"

\* C36: whenever enable_continuous_rendering(f) returns with the publisher
\* active, the publisher's update interval is 1 / f', f' being f clamped to
\* [1, 1000] and the value get_display_fps() reports, also when continuous
\* rendering was already enabled at another rate
C36_IntervalFollowsDisplayFps ==
    (EnableReturns /\ continuous_updates_active) =>
       snapshot_update_interval = Divide(1, target_display_fps)

\* the thread count of the rendering pool has been computed
StarterComputed == starter_pc \in {"threads", "initialized"}

\* max(1, h), as a size_t
AtLeastOneOf(h) == std_max(Word(1, Len(h)), h)

\* C37: Starter::initialize computes the thread count of the rendering pool
\* from the hardware concurrency h as max(1, h - 3) in unsigned machine
\* arithmetic: for every h >= 0 the count is at least 1 and at most max(1, h)
C37_RenderingThreadsInRange ==
    StarterComputed =>
       /\ ~Less(rendering_threads, Word(1, unsigned_limbs))
       /\ ~Less(AtLeastOneOf(hardware_threads),
                ToSizeT(rendering_threads, Len(hardware_threads)))

\* calculate has returned twice, once in each mode
BothModesReturned ==
    /\ camera.pc = "idle"
    /\ camera.calls = 2
    /\ first_call.use_multithreading_ # camera.use_multithreading_

\* C38: Pinhole_Camera::calculate fills the buffer of primary rays
\* identically in its sequential and in its tiled mode: for every buffer size
\* every index is written exactly once and gets the ray of the same sensor
\* position in both modes
C38_SameRaysInBothModes ==
    BothModesReturned =>
       /\ \A i \in DOMAIN primary_rays : primary_rays[i].writes = 1
       /\ Rays(primary_rays) = first_call.rays

\* the tile t fits the scratch buffer and the frame buffers
TileFits(t) ==
    /\ tile_width(t) >= 1
    /\ tile_height(t) >= 1
    /\ tile_size(t) <= tile_buffer_capacity
    /\ \A p \in Corners(t) :
          /\ tile_index(t, p[1], p[2]) \in 0..(tile_size(t) - 1)
          /\ tile_index(t, p[1], p[2]) < tile_buffer_capacity
          /\ buffer_index(p[1], p[2]) \in 0..(total_pixels - 1)

\* C39: every tile submitted by sample_primary_rays_stage has a width and a
\* height of at least 1 and at most 128 x 128 pixels, the capacity of the
\* thread-local scratch buffer, for every viewport; so every tile_index a
\* tile task uses lies within the scratch buffer and every buffer_index
\* within the frame buffers
C39_TilesFitBuffers ==
    [][\A n \in DOMAIN tile_tasks' \ DOMAIN tile_tasks :
          TileFits(tile_tasks'[n])]_vars

\* a viewport of 128-pixel tiles has submitted a tile that fills the scratch
\* buffer and a tile that the edge of the viewport clips
C39_Witness ==
    /\ TILE_SIZE = 128
    /\ \E n \in DOMAIN tile_tasks :
          tile_size(tile_tasks[n]) = tile_buffer_capacity
    /\ \E n \in DOMAIN tile_tasks :
          /\ tile_width(tile_tasks[n]) < TILE_SIZE
          /\ tile_height(tile_tasks[n]) < TILE_SIZE
====
